---- MODULE Spec2Model ----
(***************************************************************************)
(* Keyframe-track traversal and animation switching of pyglet-dragonbones. *)
(*                                                                         *)
(* Two groups of state:                                                    *)
(*  - t_* : one AnimationEvent (a track cursor) driven call by call, with  *)
(*          the while-loop of _get_next_valid_event_index one iteration    *)
(*          per step (TrackSpec, FairTrackSpec);                           *)
(*  - the skeletons, their animation managers, players and the event       *)
(*    dictionary that SkeletonAnimation declares at class level (Spec).    *)
(*                                                                         *)
(* Time is counted in whole frames; durations, steps and elapsed times are *)
(* integers.  Sampled values are exact rationals <<numerator, denom>>.     *)
(***************************************************************************)
EXTENDS Integers, Sequences, FiniteSets, TLC

None == "None"

(* ------------------------------ bounds --------------------------------- *)
MaxLen == 3        \* longest keyframe sequence drawn for a track
MaxDur == 3        \* largest keyframe duration drawn for a track
MaxStep == 2       \* largest frame step of one advance call
MaxCur == 2        \* largest elapsed time a drawn cursor starts with
MaxCalls == 6      \* update calls made on one track cursor

(* ----------------------------- rationals ------------------------------- *)
Abs(n) == IF n < 0 THEN -n ELSE n

RECURSIVE GCD(_, _)
GCD(a, b) == IF b = 0 THEN a ELSE GCD(b, a % b)

\* the number n/d (d > 0) in lowest terms
Rat(n, d) == LET g == GCD(Abs(n), d) IN <<n \div g, d \div g>>

Int2Rat(n) == <<n, 1>>

(* --------------------------- AnimationEvent ---------------------------- *)
\* dict.get(key, default)
Get(d, key, default) == IF key \in DOMAIN d THEN d[key] ELSE default

\* event_sequence[event_index], event_index counted from 0
At(event_sequence, event_index) == event_sequence[event_index + 1]

DurationOf(event_sequence, event_index) ==
    Get(At(event_sequence, event_index), "duration", 0)

GetNextEventIndex(event_sequence, event_index, step) ==
    IF event_index + step >= Len(event_sequence) THEN 0 ELSE event_index + step

\* one iteration of the while-loop of _get_next_valid_event_index
LoopBody(event_sequence, event_index, duration_sum) ==
    LET i == GetNextEventIndex(event_sequence, event_index, 1)
        d == DurationOf(event_sequence, i)
    IN  [event_index |-> i, duration_sum |-> duration_sum + d,
         new_event_duration |-> d]

\* the loop's break condition
LoopBreak(b, remainder_duration) ==
    b.new_event_duration > 0 /\ b.duration_sum > remainder_duration

\* the loop run to its break (defined when some keyframe has duration > 0)
RECURSIVE LoopFrom(_, _, _, _)
LoopFrom(event_sequence, event_index, duration_sum, remainder_duration) ==
    LET b == LoopBody(event_sequence, event_index, duration_sum)
    IN  IF LoopBreak(b, remainder_duration)
        THEN b.event_index
        ELSE LoopFrom(event_sequence, b.event_index, b.duration_sum,
                      remainder_duration)

GetNextValidEventIndex(event_sequence, event_index, remainder_duration) ==
    LoopFrom(event_sequence, event_index, 0, remainder_duration)

\* the test that opens AnimationEvent.update
FinishedEager(current_duration, total_duration, frame_step) ==
    current_duration + frame_step >= total_duration

Finished(current_duration, total_duration, frame_step) ==
    current_duration >= total_duration

\* start_duration handed to the replacement event
StartDurationNoStep(remainder_duration, frame_step) == remainder_duration

NewStartDuration(remainder_duration, frame_step) ==
    remainder_duration + frame_step

GetInfoPair(event_sequence, event_index) ==
    <<At(event_sequence, event_index),
      At(event_sequence, GetNextEventIndex(event_sequence, event_index, 1))>>

\* AnimationEvent._index_duration_to_frame(index, duration)
IndexDurationToFrame(event_sequence, index, duration) ==
    LET F[n \in 0..index] ==
            IF n = 0 THEN duration
            ELSE F[n - 1] + Get(event_sequence[n], "duration", 0)
    IN  F[index]

(* ------------------------------ BoneEvent ------------------------------ *)
\* key0 + ((key1 - key0) * current_duration / total_duration if smooth else 0)
LerpSnap(key0, key1, current_duration, total_duration, smooth) ==
    Int2Rat(key0)

Lerp(key0, key1, current_duration, total_duration, smooth) ==
    IF ~smooth THEN Int2Rat(key0)
    ELSE IF total_duration = 0 THEN "ZeroDivisionError"
    ELSE Rat(key0 * total_duration + (key1 - key0) * current_duration,
             total_duration)

\* the target a bone event writes: [field |-> target field, value |-> ...]
BoneSampleRawRotation(event_type, event_sequence, event_index, current_duration, total_duration, smooth) ==
    LET info == GetInfoPair(event_sequence, event_index)
        L(key, default) == Lerp(Get(info[1], key, default),
                                Get(info[2], key, default),
                                current_duration, total_duration, smooth)
    IN  CASE event_type = "translateFrame" ->
               [field |-> "position", value |-> <<L("x", 0), L("y", 0)>>]
          [] event_type = "rotateFrame" ->
               [field |-> "angle", value |-> L("rotate", 0)]
          [] event_type = "scaleFrame" ->
               [field |-> "scale", value |-> <<L("x", 1), L("y", 1)>>]

BoneSample(event_type, event_sequence, event_index, current_duration, total_duration, smooth) ==
    LET info == GetInfoPair(event_sequence, event_index)
        L(key, default) == Lerp(Get(info[1], key, default),
                                Get(info[2], key, default),
                                current_duration, total_duration, smooth)
    IN  CASE event_type = "translateFrame" ->
               [field |-> "position", value |-> <<L("x", 0), L("y", 0)>>]
          [] event_type = "rotateFrame" ->
               [field |-> "angle",
                value |-> Lerp(-Get(info[1], "rotate", 0),
                               -Get(info[2], "rotate", 0),
                               current_duration, total_duration, smooth)]
          [] event_type = "scaleFrame" ->
               [field |-> "scale", value |-> <<L("x", 1), L("y", 1)>>]

\* SlotEvent._execute_update_changes
SlotSampleNext(event_sequence, event_index) ==
    Get(GetInfoPair(event_sequence, event_index)[2], "value", 0)

SlotSample(event_sequence, event_index) ==
    Get(GetInfoPair(event_sequence, event_index)[1], "value", 0)

(* ------------------------------- state --------------------------------- *)
VARIABLES
    t_seq,      \* AnimationEvent.event_sequence of the track cursor
    t_index,    \* AnimationEvent.event_index
    t_cur,      \* AnimationEvent.current_duration
    t_total,    \* AnimationEvent.total_duration
    t_smooth,   \* BoneEvent.smooth
    t_step,     \* the frame_step passed to every update call of this run
    t_pc,       \* "idle", or "loop" inside _get_next_valid_event_index
    t_loop,     \* the loop's locals: event_index, duration_sum, remainder
    t_calls,    \* update calls that have returned
    t_ret,      \* what the last returned call did: "sampled" / "replaced"
    t_sample,   \* the target written by the last _execute_update_changes
    t_start,    \* event_index and current_duration the cursor started with
    current_name, \* SkeletonAnimationManager.current_name, per skeleton
    current,    \* SkeletonAnimationManager.current (the player), per skeleton
    events,     \* SkeletonAnimation.events, the dictionary declared in the class
    bones,      \* per skeleton and bone: relative targets, rates, timer
    slots,      \* per skeleton and slot: Slot.current_display
    out,        \* what the last call did: whether it raised, and the keys
                \* of the tracks it sampled / replaced
    p_bone,     \* one Bone with its BoneTransform: live and target pose
    p_parent,   \* the Skeleton that bone hangs on: world pose, target angle
    p_ticks,    \* update calls made on that bone and skeleton
    h_def,      \* armature_data["bone"]: the bone definitions, in their order
    h_pc,       \* the skeleton of h_def: "new", "loaded", or "raised" at load
    h_parent,   \* Bone.parent of every loaded bone
    h_order,    \* the keys of the bones dictionary, in insertion order
    h_fresh,    \* per bone: its last update read a parent pose of that frame
    h_log,      \* the bones updated by the last Skeleton.update, in order
    h_ticks     \* Skeleton.update calls made on that skeleton

tvars == <<t_seq, t_index, t_cur, t_total, t_smooth, t_step, t_pc, t_loop,
           t_calls, t_ret, t_sample, t_start>>

mvars == <<current_name, current, events, bones, slots, out>>

pvars == <<p_bone, p_parent, p_ticks>>

hvars == <<h_def, h_pc, h_parent, h_order, h_fresh, h_log, h_ticks>>

vars == <<tvars, mvars, pvars, hvars>>

(* ------------------- skeleton definition and clips --------------------- *)
MaxStartFrame == 1 \* largest starting_frame / set_frame argument
MaxSpeed == 1      \* largest speed argument of run
MaxDt == 1         \* largest dt of a tick, in frames of frameRate
MaxFrame == 3      \* ticks after which a player is not advanced further
MaxElapsed == 6    \* cursors beyond this elapsed time are not advanced further

Skeletons == {1, 2}        \* two skeletons loaded from the same definition
BoneNames == {"b1", "b2"}
SlotNames == {"s1"}
frameRate == 1             \* skeleton_data["frameRate"]

\* armature_data["animation"]
animation_data ==
    << [name |-> "walk", duration |-> 4,
        bone |-> << [name |-> "b1",
                     translateFrame |-> << [duration |-> 2, x |-> 0, y |-> 2],
                                           [duration |-> 2, x |-> 4] >>],
                    [name |-> "b2",
                     rotateFrame |-> << [duration |-> 1, rotate |-> 10],
                                        [duration |-> 0, rotate |-> 20],
                                        [duration |-> 3, rotate |-> 40] >>] >>,
        slot |-> << [name |-> "s1",
                     displayFrame |-> << [duration |-> 2, value |-> 1],
                                         [duration |-> 2] >>] >>],
       [name |-> "idle", duration |-> 2,
        bone |-> << [name |-> "b1",
                     rotateFrame |-> << [duration |-> 1, rotate |-> 0],
                                        [duration |-> 1, rotate |-> 90] >>,
                     scaleFrame |-> << [duration |-> 2, x |-> 2] >>] >>,
        slot |-> << >>] >>

ClipNames == { animation_data[i].name : i \in 1..Len(animation_data) }
RunNames == ClipNames \cup {"missing", None}

\* slot_info.get("displayIndex", 1) - 1 of the slot definition
default_display == [sl \in SlotNames |-> 0]

(* ----------------------------- BoneTransform --------------------------- *)
\* smoothing rates are kept in units of 1 / (RateScale * TimerBetween)
TimerBetween == 5          \* smoothing_speed_timer["between_animations"]
RateScale == 100
BetweenRate == 15          \* smoothing_speed["between_animations"][*] = 0.15
NominalRate == RateScale * TimerBetween      \* the rate 1
Groups == {"angle", "position", "scale"}

NoTarget == <<>>

\* Bone / BoneTransform as constructed
NewBone ==
    [target_relative_position |-> NoTarget,
     target_relative_angle |-> NoTarget,
     target_relative_scale |-> NoTarget,
     smoothing_speed |-> [g \in Groups |-> NominalRate],
     smoothing_speed_timer |-> 0]

\* BoneTransform.on_animation_start
OnAnimationStartKeepsTimer(bone) ==
    [bone EXCEPT !.smoothing_speed = [g \in Groups |-> BetweenRate * TimerBetween]]

BoneOnAnimationStart(bone) ==
    [bone EXCEPT !.smoothing_speed_timer = TimerBetween,
                 !.smoothing_speed = [g \in Groups |-> BetweenRate * TimerBetween]]

DefaultPoseKeepsAngle(bone) ==
    [bone EXCEPT !.target_relative_position = <<Int2Rat(0), Int2Rat(0)>>,
                 !.target_relative_scale = <<Int2Rat(1), Int2Rat(1)>>]

\* BoneTransform.do_default_pose
DoDefaultPose(bone) ==
    [bone EXCEPT !.target_relative_position = <<Int2Rat(0), Int2Rat(0)>>,
                 !.target_relative_angle = Int2Rat(0),
                 !.target_relative_scale = <<Int2Rat(1), Int2Rat(1)>>]

\* the fast-settle part of BoneTransform.update (the pose blend of the same
\* method works on the live pose, which is not part of this state)
BoneUpdateTimer(bone, dt) ==
    IF bone.smoothing_speed_timer > 0
    THEN [bone EXCEPT
            !.smoothing_speed =
                [g \in Groups |->
                    BetweenRate * TimerBetween
                    + (RateScale - BetweenRate)
                      * (TimerBetween - bone.smoothing_speed_timer)],
            !.smoothing_speed_timer = @ - dt]
    ELSE [bone EXCEPT !.smoothing_speed_timer = 0]

\* Bone.set_target_position / set_target_angle / set_target_scale
SetTargetWritesLive(bone, sample) ==
    CASE sample.field = "position" ->
           [bone EXCEPT !.relative_position = sample.value]
      [] sample.field = "angle" ->
           [bone EXCEPT !.relative_angle = sample.value]
      [] sample.field = "scale" ->
           [bone EXCEPT !.relative_scale = sample.value]

SetTarget(bone, sample) ==
    CASE sample.field = "position" ->
           [bone EXCEPT !.target_relative_position = sample.value]
      [] sample.field = "angle" ->
           [bone EXCEPT !.target_relative_angle = sample.value]
      [] sample.field = "scale" ->
           [bone EXCEPT !.target_relative_scale = sample.value]

(* ------------------- BoneTransform: the pose blend --------------------- *)
\* arithmetic on numbers n/d kept as <<n, d>> in lowest terms
RAdd(a, b) == Rat(a[1] * b[2] + b[1] * a[2], a[2] * b[2])
RSub(a, b) == Rat(a[1] * b[2] - b[1] * a[2], a[2] * b[2])
RMul(a, b) == Rat(a[1] * b[1], a[2] * b[2])
RLess(a, b) == a[1] * b[2] < b[1] * a[2]
\* Python's a % m for a positive integer m
RMod(a, m) == Rat(a[1] % (m * a[2]), a[2])

\* config.fps (the configuration module is not part of the sources at hand)
fps == 2

\* smoothing_speed[group] * dt * fps
BlendFactor(bone, group, dt) ==
    Rat(bone.smoothing_speed[group] * dt * fps, NominalRate)

\* value + diff * smoothing_speed * dt * fps
Blend(value, diff, factor) == RAdd(value, RMul(diff, factor))

Blend2(value, target, factor) ==
    <<Blend(value[1], RSub(target[1], value[1]), factor),
      Blend(value[2], RSub(target[2], value[2]), factor)>>

\* (target - value + 180) % 360 - 180
AngleDiffNoWrap(target, value) == RSub(target, value)

AngleDiff(target, value) ==
    RSub(RMod(RAdd(RSub(target, value), Int2Rat(180)), 360), Int2Rat(180))

\* math.cos / math.sin of an angle in degrees that is a multiple of 90
CosDeg(a) == CASE a % 360 = 0 -> 1 [] a % 360 = 90 -> 0
               [] a % 360 = 180 -> -1 [] a % 360 = 270 -> 0
SinDeg(a) == CASE a % 360 = 0 -> 0 [] a % 360 = 90 -> 1
               [] a % 360 = 180 -> 0 [] a % 360 = 270 -> -1

\* rotate_position(position, angle), angle an integer multiple of 90
rotate_position(position, angle) ==
    LET c == Int2Rat(CosDeg(-angle))
        s == Int2Rat(SinDeg(-angle))
    IN  <<RSub(RMul(position[1], c), RMul(position[2], s)),
          RAdd(RMul(position[1], s), RMul(position[2], c))>>

RelativePositionSnapsAlways(bone, dt) ==
    IF bone.target_relative_position = NoTarget THEN bone
    ELSE [bone EXCEPT !.relative_position = bone.target_relative_position]

UpdateRelativePositionToTarget(bone, dt) ==
    IF bone.target_relative_position = NoTarget THEN bone
    ELSE IF ~bone.smoothing_enabled["position"]
    THEN [bone EXCEPT !.relative_position = bone.target_relative_position]
    ELSE [bone EXCEPT !.relative_position =
            Blend2(@, bone.target_relative_position,
                   BlendFactor(bone, "position", dt))]

UpdateRelativeAngleToTarget(bone, dt) ==
    IF bone.target_relative_angle = NoTarget THEN bone
    ELSE IF ~bone.smoothing_enabled["angle"]
    THEN [bone EXCEPT !.relative_angle = bone.target_relative_angle]
    ELSE [bone EXCEPT !.relative_angle =
            Blend(@, AngleDiff(bone.target_relative_angle, @),
                  BlendFactor(bone, "angle", dt))]

UpdateRelativeScaleToTarget(bone, dt) ==
    IF bone.target_relative_scale = NoTarget THEN bone
    ELSE IF ~bone.smoothing_enabled["scale"]
    THEN [bone EXCEPT !.relative_scale = bone.target_relative_scale]
    ELSE [bone EXCEPT !.relative_scale =
            Blend2(@, bone.target_relative_scale,
                   BlendFactor(bone, "scale", dt))]

\* _update_scale: the world scale to blend toward
UpdateScale(bone, parent) ==
    LET anchored == <<RMul(bone.relative_scale[1], bone.base_scale[1]),
                      RMul(bone.relative_scale[2], bone.base_scale[2])>>
        parent_scale == IF parent.skeleton_path
                        THEN <<RMul(parent.scale[1], Int2Rat(-1)), parent.scale[2]>>
                        ELSE parent.scale
    IN  [bone EXCEPT !.target_scale = <<RMul(parent_scale[1], anchored[1]),
                                        RMul(parent_scale[2], anchored[2])>>]

\* _update_angle: the world angle to blend toward
UpdateAngle(bone, parent) ==
    LET scaled == RMul(RMul(bone.relative_angle, bone.scale[1]), bone.scale[2])
        anchored == RAdd(scaled, bone.base_angle)
        parent_angle == IF parent.skeleton_path THEN parent.angle + 180
                        ELSE parent.angle
    IN  [bone EXCEPT !.target_angle = RAdd(Int2Rat(parent_angle), anchored)]

\* _update_position
UpdatePositionUnscaled(bone, parent) ==
    LET anchored == <<RAdd(bone.relative_position[1], bone.base_position[1]),
                      RAdd(bone.relative_position[2], bone.base_position[2])>>
        rotated == rotate_position(anchored, parent.angle)
    IN  [bone EXCEPT !.position = <<RAdd(parent.position[1], rotated[1]),
                                    RAdd(parent.position[2], rotated[2])>>]

UpdatePosition(bone, parent) ==
    LET anchored == <<RAdd(bone.relative_position[1], bone.base_position[1]),
                      RAdd(bone.relative_position[2], bone.base_position[2])>>
        scaled == <<RMul(anchored[1], parent.scale[1]),
                    RMul(anchored[2], parent.scale[2])>>
        rotated == rotate_position(scaled, parent.angle)
    IN  [bone EXCEPT !.position = <<RAdd(parent.position[1], rotated[1]),
                                    RAdd(parent.position[2], rotated[2])>>]

UpdateAngleToTarget(bone, dt) ==
    IF bone.target_angle = NoTarget THEN bone
    ELSE IF ~bone.smoothing_enabled["angle"]
    THEN [bone EXCEPT !.angle = bone.target_angle]
    ELSE [bone EXCEPT !.angle =
            Blend(@, AngleDiff(bone.target_angle, @),
                  BlendFactor(bone, "angle", dt))]

WorldScaleSnapsAlways(bone, dt) ==
    IF bone.target_scale = NoTarget THEN bone
    ELSE [bone EXCEPT !.scale = bone.target_scale]

UpdateScaleToTarget(bone, dt) ==
    IF bone.target_scale = NoTarget THEN bone
    ELSE IF ~bone.smoothing_enabled["scale"]
    THEN [bone EXCEPT !.scale = bone.target_scale]
    ELSE [bone EXCEPT !.scale =
            Blend2(@, bone.target_scale, BlendFactor(bone, "scale", dt))]

\* BoneTransform.update(dt)
BoneTransformUpdate(bone, parent, dt) ==
    LET b1 == UpdateRelativePositionToTarget(bone, dt)
        b2 == UpdateRelativeAngleToTarget(b1, dt)
        b3 == UpdateRelativeScaleToTarget(b2, dt)
        b4 == UpdateScale(b3, parent)
        b5 == UpdateAngle(b4, parent)
        b6 == UpdatePosition(b5, parent)
        b7 == UpdateAngleToTarget(b6, dt)
        b8 == UpdateScaleToTarget(b7, dt)
    IN  BoneUpdateTimer(b8, dt)

\* BoneTransform.set_smoothing(angle, position, scale); None keeps a flag
SetSmoothing(bone, angle, position, scale) ==
    [bone EXCEPT !.smoothing_enabled =
        [g \in Groups |->
            LET arg == CASE g = "angle" -> angle [] g = "position" -> position
                         [] g = "scale" -> scale
            IN  IF arg = None THEN @[g] ELSE arg = "True"],
                 \* the else of "if scale is not None"
                 !.smoothing_speed_timer = IF scale = None THEN 0 ELSE @]

\* Skeleton.update_angle_to_target(dt)
SkeletonUpdateAngleToTarget(skeleton, dt) ==
    IF skeleton.target_angle = NoTarget THEN skeleton
    ELSE LET d == AngleDiff(skeleton.target_angle, Int2Rat(skeleton.angle))
         IN  [skeleton EXCEPT !.angle = @ + d[1] * skeleton.angle_smoothing_speed * dt]

(* --------------------------- SkeletonAnimation ------------------------- *)
all_bone_event_types == <<"translateFrame", "rotateFrame", "scaleFrame">>
all_slot_event_types == <<"displayFrame">>

NoPlayer == [none |-> TRUE]
EmptyDict == <<>>

\* BoneEvent(...) / SlotEvent(...): part is <<skeleton, bone or slot name>>
NewEvent(part, event_type, event_sequence, event_index, start_duration) ==
    [part |-> part, event_type |-> event_type,
     event_sequence |-> event_sequence, event_index |-> event_index,
     total_duration |-> DurationOf(event_sequence, event_index),
     current_duration |-> start_duration, smooth |-> TRUE]

Raise == [ok |-> FALSE, event_index |-> 0, start_duration |-> 0]

\* the for-loop of _frame_to_index_duration from the k-th event on
RECURSIVE FrameLoop(_, _, _, _, _)
FrameLoop(frame_index, event_sequence, k, i, duration_count) ==
    IF k > Len(event_sequence) THEN Raise
    ELSE IF "duration" \notin DOMAIN event_sequence[k] THEN Raise   \* KeyError
    ELSE LET d == event_sequence[k].duration
         IN  IF d <= 0
             THEN FrameLoop(frame_index, event_sequence, k + 1, i, duration_count)
             ELSE IF duration_count >= frame_index
             THEN [ok |-> TRUE, event_index |-> i,
                   start_duration |-> duration_count - frame_index]
             ELSE FrameLoop(frame_index, event_sequence, k + 1, i + 1,
                            duration_count + d)

FrameToIndexDuration(duration, frame_index, event_sequence) ==
    IF frame_index > duration THEN Raise
    ELSE FrameLoop(frame_index, event_sequence, 1, 0, 0)

\* the inner loop of _instantiate_bone_events / _instantiate_slot_events over
\* the event types from the t-th on; d is the part's dictionary so far
RECURSIVE InstTypes(_, _, _, _, _, _, _)
InstTypes(duration, part, part_info, types, t, frame, d) ==
    IF t > Len(types) THEN [ok |-> TRUE, d |-> d]
    ELSE LET ty == types[t]
         IN  IF ty \notin DOMAIN part_info
             THEN InstTypes(duration, part, part_info, types, t + 1, frame, d)
             ELSE LET r == FrameToIndexDuration(duration, frame, part_info[ty])
                  IN  IF ~r.ok THEN [ok |-> FALSE, d |-> d]
                      ELSE InstTypes(duration, part, part_info, types, t + 1,
                                     frame,
                                     (ty :> NewEvent(part, ty, part_info[ty],
                                                     r.event_index,
                                                     r.start_duration)) @@ d)

\* the outer loop over bone_info / slot_info from the k-th entry on; dict is
\* events["bone"] or events["slot"]
RECURSIVE InstParts(_, _, _, _, _, _, _)
InstParts(duration, skel, infos, types, k, frame, dict) ==
    IF k > Len(infos) THEN [ok |-> TRUE, dict |-> dict]
    ELSE LET name == infos[k].name
             r == InstTypes(duration, <<skel, name>>, infos[k], types, 1,
                            frame, EmptyDict)
             dict2 == (name :> r.d) @@ dict
         IN  IF ~r.ok THEN [ok |-> FALSE, dict |-> dict2]
             ELSE InstParts(duration, skel, infos, types, k + 1, frame, dict2)

\* _instantiate_events: the bone events, then the slot events
InstantiateEvents(info, skel, frame, ev) ==
    LET b == InstParts(info.duration, skel, info.bone, all_bone_event_types,
                       1, frame, ev.bone)
    IN  IF ~b.ok THEN [ok |-> FALSE, events |-> [ev EXCEPT !.bone = b.dict]]
        ELSE LET sl == InstParts(info.duration, skel, info.slot,
                                 all_slot_event_types, 1, frame, ev.slot)
             IN  [ok |-> sl.ok, events |-> [bone |-> b.dict, slot |-> sl.dict]]

\* SkeletonAnimation.__init__ once _instantiate_events has returned
NewPlayer(info, frame, speed) ==
    [info |-> info.name, duration |-> info.duration, start_frame |-> frame,
     speed |-> speed, smooth |-> TRUE, playing |-> TRUE, frame |-> 0]

\* SkeletonAnimationManager._get_animation_info: the index of the first clip
\* of that name, 0 when there is none
GetAnimationInfo(animation_name) ==
    LET I == { i \in 1..Len(animation_data) : animation_data[i].name = animation_name }
    IN  IF I = {} THEN 0 ELSE CHOOSE i \in I : \A j \in I : i <= j

\* the keys of all events of a dictionary: <<kind, part name, event type>>
Keys(ev) ==
    { k \in {"bone"} \X BoneNames \X {"translateFrame", "rotateFrame", "scaleFrame"} :
        k[2] \in DOMAIN ev.bone /\ k[3] \in DOMAIN ev.bone[k[2]] }
    \cup
    { k \in {"slot"} \X SlotNames \X {"displayFrame"} :
        k[2] \in DOMAIN ev.slot /\ k[3] \in DOMAIN ev.slot[k[2]] }

EventAt(ev, k) == IF k[1] = "bone" THEN ev.bone[k[2]][k[3]] ELSE ev.slot[k[2]][k[3]]

\* AnimationEvent.update on one event: the event afterwards (mutated, or the
\* replacement returned to the player)
EventUpdate(e, frame_step) ==
    IF Finished(e.current_duration, e.total_duration, frame_step)
    THEN LET remainder_duration == e.current_duration - e.total_duration
         IN  NewEvent(e.part, e.event_type, e.event_sequence,
                      GetNextValidEventIndex(e.event_sequence, e.event_index,
                                             remainder_duration),
                      NewStartDuration(remainder_duration, frame_step))
    ELSE [e EXCEPT !.current_duration = @ + frame_step]

\* SkeletonAnimation.set_smooth(): every bone event takes the player's flag
ApplySmooth(ev, smooth) ==
    [ev EXCEPT !.bone = [n \in DOMAIN ev.bone |->
                           [ty \in DOMAIN ev.bone[n] |->
                              [ev.bone[n][ty] EXCEPT !.smooth = smooth]]]]


(* ------------------ managers and players (Spec) ------------------------ *)
Returned(raised) == [raised |-> raised, sampled |-> {}, replaced |-> {}]

\* Skeleton.__init__ of every skeleton; no animation requested yet
MainInit ==
    /\ current_name = [s \in Skeletons |-> None]
    /\ current = [s \in Skeletons |-> NoPlayer]
    /\ events = [bone |-> EmptyDict, slot |-> EmptyDict]
    /\ bones = [s \in Skeletons |-> [b \in BoneNames |-> NewBone]]
    /\ slots = [s \in Skeletons |-> default_display]
    /\ out = Returned(FALSE)

(* ---------------- one bone under its skeleton (PoseSpec) --------------- *)
MaxTicks == 1      \* update calls made on the bone and its skeleton

\* bone_info of the armature data: without and with a "transform" entry
BoneInfos ==
    { [name |-> "b1"],
      [name |-> "b1", transform |-> [x |-> 1, y |-> 2, skX |-> -90, scX |-> 2]] }

\* BoneTransform.__init__: base_position, base_angle, base_scale
BaseOf(bone_info) ==
    LET tr == Get(bone_info, "transform", [none |-> TRUE])
        a == Get(tr, "skX", 0)
    IN  [base_position |-> <<Int2Rat(Get(tr, "x", 0)), Int2Rat(Get(tr, "y", 0))>>,
         base_scale |-> <<Int2Rat(Get(tr, "scX", 1)), Int2Rat(Get(tr, "scY", 1))>>,
         base_angle |-> Int2Rat(IF a < 0 THEN 360 + a ELSE a)]

\* Bone.__init__ with its BoneTransform
NewPoseBone(bone_info) ==
    [target_relative_position |-> NoTarget,
     target_relative_angle |-> NoTarget,
     target_relative_scale |-> NoTarget,
     target_angle |-> NoTarget,
     target_scale |-> NoTarget,
     smoothing_speed |-> [g \in Groups |-> NominalRate],
     smoothing_speed_timer |-> 0,
     smoothing_enabled |-> [g \in Groups |-> TRUE],
     base_position |-> BaseOf(bone_info).base_position,
     base_angle |-> BaseOf(bone_info).base_angle,
     base_scale |-> BaseOf(bone_info).base_scale,
     position |-> <<Int2Rat(0), Int2Rat(0)>>,
     angle |-> Int2Rat(0),
     scale |-> <<Int2Rat(1), Int2Rat(1)>>,
     relative_position |-> <<Int2Rat(0), Int2Rat(0)>>,
     relative_angle |-> Int2Rat(0),
     relative_scale |-> <<Int2Rat(1), Int2Rat(1)>>]

\* Skeleton.__init__: set_position(0, 0), set_scale(1, 1), set_angle(0)
angle_smoothing_speed == 10

NewSkeleton ==
    [skeleton_path |-> TRUE,
     position |-> <<Int2Rat(0), Int2Rat(0)>>,
     angle |-> 0,
     scale |-> <<Int2Rat(1), Int2Rat(1)>>,
     target_angle |-> NoTarget,
     angle_smoothing_speed |-> angle_smoothing_speed]

PoseInit ==
    /\ p_bone \in { NewPoseBone(bone_info) : bone_info \in BoneInfos }
    /\ p_parent = NewSkeleton
    /\ p_ticks = 0

\* the bone of PoseSpec, unused
PoseIdle ==
    /\ p_bone = NewPoseBone([name |-> "b1"])
    /\ p_parent = NewSkeleton
    /\ p_ticks = MaxTicks

(* ------------------------- the tree of bones --------------------------- *)
MaxBones == 3      \* most bones in a definition
MaxTreeTicks == 2  \* most Skeleton.update calls on a loaded tree

TreeBoneNames == {"b1", "b2", "b3"}

\* a "parent" entry that names no bone of the definition
Ghost == "ghost"

\* the parent of a bone that has the skeleton for its parent
SkeletonRoot == "skeleton"

\* one entry of armature_data["bone"]; parent = SkeletonRoot: no "parent" key
BoneDef(name, parent) ==
    IF parent = SkeletonRoot THEN [name |-> name]
    ELSE [name |-> name, parent |-> parent]

BoneDefs ==
    { BoneDef(n, q) : n \in TreeBoneNames,
                      q \in TreeBoneNames \cup {Ghost, SkeletonRoot} }

\* the definitions: up to MaxBones bones of different names, in any order
Definitions ==
    UNION { { def \in [1..n -> BoneDefs] :
                \A i, j \in 1..n : def[i].name = def[j].name => i = j }
            : n \in 1..MaxBones }

NamesOf(def) == { def[i].name : i \in 1..Len(def) }

\* the keys of the bones dictionary in insertion order
KeysOf(def) == [i \in 1..Len(def) |-> def[i].name]

DefOf(def, name) == def[CHOOSE i \in 1..Len(def) : def[i].name = name]

\* SkeletonStructureManager._load_bones: every Bone is made with the skeleton
\* for its parent, then bones[bone_name].parent = bones[parent_name] for
\* every "parent" entry; bones[parent_name] raises KeyError
StructureLoadBones(def) ==
    IF \E i \in 1..Len(def) :
           "parent" \in DOMAIN def[i] /\ def[i].parent \notin NamesOf(def)
    THEN Raise
    ELSE [b \in NamesOf(def) |-> Get(DefOf(def, b), "parent", SkeletonRoot)]

\* Skeleton._load_bones: Bone(b, self, bone_group) for every entry
SkeletonLoadBones(def) == [b \in NamesOf(def) |-> SkeletonRoot]

TreeInit ==
    /\ h_def \in Definitions
    /\ h_pc = "new"
    /\ h_parent = EmptyDict
    /\ h_order = <<>>
    /\ h_fresh = EmptyDict
    /\ h_log = <<>>
    /\ h_ticks = 0

\* the tree of TreeSpec, unused
TreeIdle ==
    /\ h_def = <<BoneDef("b1", SkeletonRoot)>>
    /\ h_pc = "idle"
    /\ h_parent = EmptyDict
    /\ h_order = <<>>
    /\ h_fresh = EmptyDict
    /\ h_log = <<>>
    /\ h_ticks = MaxTreeTicks

(* --------------------- one track cursor (TrackSpec) -------------------- *)
\* keyframe number i (from 1) of a drawn translateFrame track
Keyframe(i, d) == [duration |-> d, x |-> 10 * (i - 1)]

Tracks ==
    UNION { { [i \in 1..n |-> Keyframe(i, ds[i])] : ds \in [1..n -> 0..MaxDur] }
            : n \in 1..MaxLen }

\* no search in progress / no target written yet
NoLoop == [event_index |-> 0, duration_sum |-> 0, remainder_duration |-> 0]
NoSample == [field |-> None, value |-> <<>>]

\* AnimationEvent.__init__ / BoneEvent.__init__ with the drawn arguments
TrackInit ==
    /\ t_seq \in Tracks
    /\ t_index \in 0..(Len(t_seq) - 1)
    /\ t_cur \in 0..MaxCur
    /\ t_total = DurationOf(t_seq, t_index)
    /\ t_smooth \in BOOLEAN
    /\ t_step \in 0..MaxStep
    /\ t_pc = "idle"
    /\ t_loop = NoLoop
    /\ t_calls = 0
    /\ t_ret = None
    /\ t_sample = NoSample
    /\ t_start = [event_index |-> t_index, current_duration |-> t_cur]

\* an update that samples without testing whether the event is finished
TUpdateSampleUnguarded ==
    /\ t_pc = "idle"
    /\ t_calls < MaxCalls
    /\ t_sample' = BoneSample("translateFrame", t_seq, t_index, t_cur,
                              t_total, t_smooth)
    /\ t_cur' = t_cur + t_step
    /\ t_ret' = "sampled"
    /\ t_calls' = t_calls + 1
    /\ UNCHANGED <<t_seq, t_index, t_total, t_smooth, t_step, t_pc, t_loop,
                   t_start, mvars, pvars, hvars>>

\* AnimationEvent.update, current event not finished: sample, then add the step
TUpdateSample ==
    /\ t_pc = "idle"
    /\ t_calls < MaxCalls
    /\ ~Finished(t_cur, t_total, t_step)
    /\ t_sample' = BoneSample("translateFrame", t_seq, t_index, t_cur,
                              t_total, t_smooth)
    /\ t_cur' = t_cur + t_step
    /\ t_ret' = "sampled"
    /\ t_calls' = t_calls + 1
    /\ UNCHANGED <<t_seq, t_index, t_total, t_smooth, t_step, t_pc, t_loop,
                   t_start, mvars, pvars, hvars>>

\* AnimationEvent.update, current event finished: enter the index search
TUpdateFinished ==
    /\ t_pc = "idle"
    /\ t_calls < MaxCalls
    /\ Finished(t_cur, t_total, t_step)
    /\ t_pc' = "loop"
    /\ t_loop' = [event_index |-> t_index, duration_sum |-> 0,
                  remainder_duration |-> t_cur - t_total]
    /\ UNCHANGED <<t_seq, t_index, t_cur, t_total, t_smooth, t_step, t_calls,
                   t_ret, t_sample, t_start, mvars, pvars, hvars>>

\* a loop iteration that does not break
TLoopNext ==
    /\ t_pc = "loop"
    /\ LET b == LoopBody(t_seq, t_loop.event_index, t_loop.duration_sum)
       IN  /\ ~LoopBreak(b, t_loop.remainder_duration)
           /\ t_loop' = [t_loop EXCEPT !.event_index = b.event_index,
                                       !.duration_sum = b.duration_sum]
    /\ UNCHANGED <<t_seq, t_index, t_cur, t_total, t_smooth, t_step, t_pc,
                   t_calls, t_ret, t_sample, t_start, mvars, pvars, hvars>>

\* the iteration that breaks: update returns the replacement event, which the
\* caller stores in place of the old one (a new BoneEvent has smooth = True)
TLoopBreak ==
    /\ t_pc = "loop"
    /\ LET b == LoopBody(t_seq, t_loop.event_index, t_loop.duration_sum)
       IN  /\ LoopBreak(b, t_loop.remainder_duration)
           /\ t_index' = b.event_index
           /\ t_total' = DurationOf(t_seq, b.event_index)
           /\ t_cur' = NewStartDuration(t_loop.remainder_duration, t_step)
    /\ t_smooth' = TRUE
    /\ t_pc' = "idle"
    /\ t_loop' = NoLoop
    /\ t_ret' = "replaced"
    /\ t_calls' = t_calls + 1
    /\ UNCHANGED <<t_seq, t_step, t_sample, t_start, mvars, pvars, hvars>>

TrackNext == TUpdateSample \/ TUpdateFinished \/ TLoopNext \/ TLoopBreak

\* a drawn cursor, next to skeletons that have just been constructed
TrackStart == TrackInit /\ MainInit /\ PoseIdle /\ TreeIdle

TrackSpec == TrackStart /\ [][TrackNext]_vars

\* the interpreter keeps executing a loop it has entered
FairTrackSpec == TrackSpec /\ WF_vars(TLoopNext) /\ WF_vars(TLoopBreak)

(* ------------ a cursor advanced without end (RepeatSpec) --------------- *)
\* the update calls of a player that ticks without end: t_calls stops counting
\* at MaxCalls, and a cursor whose elapsed time has passed MaxElapsed is not
\* advanced further
CountCall(calls) == IF calls < MaxCalls THEN calls + 1 ELSE calls

\* AnimationEvent.update, current event not finished: sample, then add the step
RUpdateSample ==
    /\ t_pc = "idle"
    /\ t_cur <= MaxElapsed
    /\ ~Finished(t_cur, t_total, t_step)
    /\ t_sample' = BoneSample("translateFrame", t_seq, t_index, t_cur,
                              t_total, t_smooth)
    /\ t_cur' = t_cur + t_step
    /\ t_ret' = "sampled"
    /\ t_calls' = CountCall(t_calls)
    /\ UNCHANGED <<t_seq, t_index, t_total, t_smooth, t_step, t_pc, t_loop,
                   t_start, mvars, pvars, hvars>>

\* AnimationEvent.update, current event finished: enter the index search
RUpdateFinished ==
    /\ t_pc = "idle"
    /\ t_cur <= MaxElapsed
    /\ Finished(t_cur, t_total, t_step)
    /\ t_pc' = "loop"
    /\ t_loop' = [event_index |-> t_index, duration_sum |-> 0,
                  remainder_duration |-> t_cur - t_total]
    /\ UNCHANGED <<t_seq, t_index, t_cur, t_total, t_smooth, t_step, t_calls,
                   t_ret, t_sample, t_start, mvars, pvars, hvars>>

\* the iteration that breaks: the replacement event is stored
RLoopBreak ==
    /\ t_pc = "loop"
    /\ LET b == LoopBody(t_seq, t_loop.event_index, t_loop.duration_sum)
       IN  /\ LoopBreak(b, t_loop.remainder_duration)
           /\ t_index' = b.event_index
           /\ t_total' = DurationOf(t_seq, b.event_index)
           /\ t_cur' = NewStartDuration(t_loop.remainder_duration, t_step)
    /\ t_smooth' = TRUE
    /\ t_pc' = "idle"
    /\ t_loop' = NoLoop
    /\ t_ret' = "replaced"
    /\ t_calls' = CountCall(t_calls)
    /\ UNCHANGED <<t_seq, t_step, t_sample, t_start, mvars, pvars, hvars>>

RepeatNext == RUpdateSample \/ RUpdateFinished \/ TLoopNext \/ RLoopBreak

\* the cursor a player constructs for a track when a clip starts at frame 0
RepeatInit ==
    /\ t_seq \in Tracks
    /\ t_index = 0
    /\ t_cur = 0
    /\ t_total = DurationOf(t_seq, 0)
    /\ t_smooth = TRUE
    /\ t_step \in 0..MaxStep
    /\ t_pc = "idle"
    /\ t_loop = NoLoop
    /\ t_calls = 0
    /\ t_ret = None
    /\ t_sample = NoSample
    /\ t_start = [event_index |-> 0, current_duration |-> 0]

RepeatStart == RepeatInit /\ MainInit /\ PoseIdle /\ TreeIdle

\* the player calls update on the cursor on every tick, tick after tick
RepeatSpec == RepeatStart /\ [][RepeatNext]_vars /\ WF_vars(RepeatNext)

(* ------------- a cursor constructed by a seek (SeekSpec) --------------- *)
MaxSeekFrame == 3  \* largest frame a track is sought to

\* a keyframe as the file gives it; d < 0 stands for a keyframe without a
\* "duration" entry
SeekKeyframe(i, d) == IF d < 0 THEN [x |-> 10 * (i - 1)] ELSE Keyframe(i, d)

SeekTracks ==
    UNION { { [i \in 1..n |-> SeekKeyframe(i, ds[i])] : ds \in [1..n -> -1..MaxDur] }
            : n \in 1..MaxLen }

\* the clip's declared duration: the sum of the durations its track gives
ClipDuration(event_sequence) ==
    LET F[n \in 0..Len(event_sequence)] ==
            IF n = 0 THEN 0 ELSE F[n - 1] + DurationOf(event_sequence, n - 1)
    IN  F[Len(event_sequence)]

\* a track of the clip being started; no event has been constructed yet
SeekInit ==
    /\ t_seq \in SeekTracks
    /\ t_index = 0 /\ t_cur = 0 /\ t_total = 0
    /\ t_smooth = TRUE
    /\ t_step \in 1..MaxStep
    /\ t_pc = "new"
    /\ t_loop = NoLoop
    /\ t_calls = 0
    /\ t_ret = None
    /\ t_sample = NoSample
    /\ t_start = [event_index |-> 0, current_duration |-> 0]

\* _instantiate_bone_events for this track: _frame_to_index_duration(frame),
\* then BoneEvent(...) unless the seek raised
TSeek(frame) ==
    /\ t_pc = "new"
    /\ LET r == FrameToIndexDuration(ClipDuration(t_seq), frame, t_seq)
       IN  IF r.ok
           THEN /\ t_index' = r.event_index
                /\ t_cur' = r.start_duration
                /\ t_total' = DurationOf(t_seq, r.event_index)
                /\ t_start' = [event_index |-> r.event_index,
                               current_duration |-> r.start_duration]
                /\ t_pc' = "idle"
           ELSE /\ t_pc' = "raised"
                /\ UNCHANGED <<t_index, t_cur, t_total, t_start>>
    /\ UNCHANGED <<t_seq, t_smooth, t_step, t_loop, t_calls, t_ret, t_sample,
                   mvars, pvars, hvars>>

SeekNext == (\E frame \in 0..MaxSeekFrame : TSeek(frame)) \/ TrackNext

SeekStart == SeekInit /\ MainInit /\ PoseIdle /\ TreeIdle

SeekSpec == SeekStart /\ [][SeekNext]_vars

\* the track cursor of TrackSpec, unused
TrackIdle ==
    /\ t_seq = <<Keyframe(1, 1)>> /\ t_index = 0 /\ t_cur = 0 /\ t_total = 1
    /\ t_smooth = TRUE /\ t_step = 0 /\ t_pc = "idle" /\ t_loop = NoLoop
    /\ t_calls = MaxCalls /\ t_ret = None /\ t_sample = NoSample
    /\ t_start = [event_index |-> 0, current_duration |-> 0]

Init == MainInit /\ TrackIdle /\ PoseIdle /\ TreeIdle

IsIdentity(bone) ==
    /\ bone.target_relative_position = <<Int2Rat(0), Int2Rat(0)>>
    /\ bone.target_relative_angle = Int2Rat(0)
    /\ bone.target_relative_scale = <<Int2Rat(1), Int2Rat(1)>>

\* a run that starts the fast-settle window also when the name is current
RunRestartsSameName(s, animation_name, starting_frame, speed) ==
    LET started == [b \in BoneNames |-> BoneOnAnimationStart(bones[s][b])]
        posed == [b \in BoneNames |-> DoDefaultPose(started[b])]
        i == GetAnimationInfo(animation_name)
        r == InstantiateEvents(animation_data[i], s, starting_frame, events)
    IN  /\ UNCHANGED <<tvars, pvars, hvars>>
        /\ IF current_name[s] = animation_name
           THEN /\ out' = Returned(FALSE)
                /\ bones' = [bones EXCEPT ![s] = started]
                /\ UNCHANGED <<current_name, current, events, slots>>
           ELSE /\ current_name' = [current_name EXCEPT ![s] = animation_name]
                /\ IF animation_name = None
                   THEN /\ bones' = [bones EXCEPT ![s] = posed]
                        /\ slots' = [slots EXCEPT ![s] = default_display]
                        /\ current' = [current EXCEPT ![s] = NoPlayer]
                        /\ out' = Returned(FALSE)
                        /\ UNCHANGED events
                   ELSE IF i = 0
                   THEN /\ bones' = [bones EXCEPT ![s] = started]
                        /\ out' = Returned(TRUE)
                        /\ UNCHANGED <<current, events, slots>>
                   ELSE /\ bones' = [bones EXCEPT ![s] = started]
                        /\ events' = r.events
                        /\ current' = IF r.ok
                                      THEN [current EXCEPT ![s] =
                                              NewPlayer(animation_data[i],
                                                        starting_frame, speed)]
                                      ELSE current
                        /\ out' = Returned(~r.ok)
                        /\ UNCHANGED slots

\* SkeletonAnimationManager.run(animation_name, starting_frame, speed) of
\* skeleton s, with Skeleton.on_animation_start, Skeleton._do_default_pose and
\* SkeletonAnimation.__init__
Run(s, animation_name, starting_frame, speed) ==
    LET started == [b \in BoneNames |-> BoneOnAnimationStart(bones[s][b])]
        posed == [b \in BoneNames |-> DoDefaultPose(started[b])]
        i == GetAnimationInfo(animation_name)
        r == InstantiateEvents(animation_data[i], s, starting_frame, events)
    IN  /\ UNCHANGED <<tvars, pvars, hvars>>
        /\ IF current_name[s] = animation_name
           THEN /\ out' = Returned(FALSE)
                /\ UNCHANGED <<current_name, current, events, bones, slots>>
           ELSE /\ current_name' = [current_name EXCEPT ![s] = animation_name]
                /\ IF animation_name = None
                   THEN /\ bones' = [bones EXCEPT ![s] = posed]
                        /\ slots' = [slots EXCEPT ![s] = default_display]
                        /\ current' = [current EXCEPT ![s] = NoPlayer]
                        /\ out' = Returned(FALSE)
                        /\ UNCHANGED events
                   ELSE IF i = 0
                   THEN /\ bones' = [bones EXCEPT ![s] = started]
                        /\ out' = Returned(TRUE)
                        /\ UNCHANGED <<current, events, slots>>
                   ELSE /\ bones' = [bones EXCEPT ![s] = started]
                        /\ events' = r.events
                        /\ current' = IF r.ok
                                      THEN [current EXCEPT ![s] =
                                              NewPlayer(animation_data[i],
                                                        starting_frame, speed)]
                                      ELSE current
                        /\ out' = Returned(~r.ok)
                        /\ UNCHANGED slots

\* an update that advances the player whether it is paused or not
UpdateIgnoresPause(s, dt) ==
    LET aged == [bones EXCEPT ![s] =
                    [b \in BoneNames |-> BoneUpdateTimer(bones[s][b], dt)]]
        pl == current[s]
    IN  /\ UNCHANGED <<tvars, pvars, hvars, current_name>>
        /\ IF pl = NoPlayer
           THEN /\ bones' = aged
                /\ out' = Returned(FALSE)
                /\ UNCHANGED <<current, events, slots>>
           ELSE LET frame_step == dt * pl.speed * frameRate
                    ev1 == ApplySmooth(events, pl.smooth)
                    K == Keys(ev1)
                    done == { k \in K :
                                Finished(EventAt(ev1, k).current_duration,
                                         EventAt(ev1, k).total_duration,
                                         frame_step) }
                    Sampled(k, part) ==
                        k \in K \ done /\ EventAt(ev1, k).part = part
                    Sample(k) ==
                        LET e == EventAt(ev1, k)
                        IN  BoneSample(e.event_type, e.event_sequence,
                                       e.event_index, e.current_duration,
                                       e.total_duration, e.smooth)
                    Apply(bone, s2, b, ty) ==
                        IF Sampled(<<"bone", b, ty>>, <<s2, b>>)
                        THEN SetTarget(bone, Sample(<<"bone", b, ty>>))
                        ELSE bone
                IN  /\ pl.frame < MaxFrame
                    /\ \A k \in K : EventAt(ev1, k).current_duration <= MaxElapsed
                    /\ events' =
                         [bone |-> [n \in DOMAIN ev1.bone |->
                                      [ty \in DOMAIN ev1.bone[n] |->
                                         EventUpdate(ev1.bone[n][ty], frame_step)]],
                          slot |-> [n \in DOMAIN ev1.slot |->
                                      [ty \in DOMAIN ev1.slot[n] |->
                                         EventUpdate(ev1.slot[n][ty], frame_step)]]]
                    /\ bones' =
                         [s2 \in Skeletons |-> [b \in BoneNames |->
                            Apply(Apply(Apply(aged[s2][b], s2, b, "translateFrame"),
                                        s2, b, "rotateFrame"),
                                  s2, b, "scaleFrame")]]
                    /\ slots' =
                         [s2 \in Skeletons |-> [sl \in SlotNames |->
                            IF Sampled(<<"slot", sl, "displayFrame">>, <<s2, sl>>)
                            THEN LET e == EventAt(ev1, <<"slot", sl, "displayFrame">>)
                                 IN  SlotSample(e.event_sequence, e.event_index)
                            ELSE slots[s2][sl]]]
                    /\ current' = [current EXCEPT ![s].frame = @ + dt * pl.speed]
                    /\ out' = [raised |-> FALSE, sampled |-> K \ done,
                               replaced |-> done]

\* Skeleton.update(dt) of skeleton s: every bone's update, then
\* SkeletonAnimationManager.update -> SkeletonAnimation.update
Update(s, dt) ==
    LET aged == [bones EXCEPT ![s] =
                    [b \in BoneNames |-> BoneUpdateTimer(bones[s][b], dt)]]
        pl == current[s]
    IN  /\ UNCHANGED <<tvars, pvars, hvars, current_name>>
        /\ IF pl = NoPlayer \/ ~pl.playing
           THEN /\ bones' = aged
                /\ out' = Returned(FALSE)
                /\ UNCHANGED <<current, events, slots>>
           ELSE LET frame_step == dt * pl.speed * frameRate
                    ev1 == ApplySmooth(events, pl.smooth)
                    K == Keys(ev1)
                    done == { k \in K :
                                Finished(EventAt(ev1, k).current_duration,
                                         EventAt(ev1, k).total_duration,
                                         frame_step) }
                    Sampled(k, part) ==
                        k \in K \ done /\ EventAt(ev1, k).part = part
                    Sample(k) ==
                        LET e == EventAt(ev1, k)
                        IN  BoneSample(e.event_type, e.event_sequence,
                                       e.event_index, e.current_duration,
                                       e.total_duration, e.smooth)
                    Apply(bone, s2, b, ty) ==
                        IF Sampled(<<"bone", b, ty>>, <<s2, b>>)
                        THEN SetTarget(bone, Sample(<<"bone", b, ty>>))
                        ELSE bone
                IN  /\ pl.frame < MaxFrame
                    /\ \A k \in K : EventAt(ev1, k).current_duration <= MaxElapsed
                    /\ events' =
                         [bone |-> [n \in DOMAIN ev1.bone |->
                                      [ty \in DOMAIN ev1.bone[n] |->
                                         EventUpdate(ev1.bone[n][ty], frame_step)]],
                          slot |-> [n \in DOMAIN ev1.slot |->
                                      [ty \in DOMAIN ev1.slot[n] |->
                                         EventUpdate(ev1.slot[n][ty], frame_step)]]]
                    /\ bones' =
                         [s2 \in Skeletons |-> [b \in BoneNames |->
                            Apply(Apply(Apply(aged[s2][b], s2, b, "translateFrame"),
                                        s2, b, "rotateFrame"),
                                  s2, b, "scaleFrame")]]
                    /\ slots' =
                         [s2 \in Skeletons |-> [sl \in SlotNames |->
                            IF Sampled(<<"slot", sl, "displayFrame">>, <<s2, sl>>)
                            THEN LET e == EventAt(ev1, <<"slot", sl, "displayFrame">>)
                                 IN  SlotSample(e.event_sequence, e.event_index)
                            ELSE slots[s2][sl]]]
                    /\ current' = [current EXCEPT ![s].frame = @ + dt * pl.speed]
                    /\ out' = [raised |-> FALSE, sampled |-> K \ done,
                               replaced |-> done]

\* SkeletonAnimation.set_frame(frame) on the current player of skeleton s
SetFrame(s, frame) ==
    LET pl == current[s]
        r == InstantiateEvents(animation_data[GetAnimationInfo(pl.info)], s,
                               frame, events)
    IN  /\ pl # NoPlayer
        /\ events' = r.events
        /\ out' = Returned(~r.ok)
        /\ UNCHANGED <<tvars, pvars, hvars, current_name, current, bones, slots>>

\* a restart that rewinds to frame 0 instead of the player's start frame
RestartFromZero(s) ==
    LET pl == current[s]
        r == InstantiateEvents(animation_data[GetAnimationInfo(pl.info)], s,
                               0, events)
    IN  /\ pl # NoPlayer
        /\ events' = r.events
        /\ out' = Returned(~r.ok)
        /\ UNCHANGED <<tvars, pvars, hvars, current_name, current, bones, slots>>

\* SkeletonAnimation.restart() on the current player of skeleton s
Restart(s) ==
    LET pl == current[s]
        r == InstantiateEvents(animation_data[GetAnimationInfo(pl.info)], s,
                               pl.start_frame, events)
    IN  /\ pl # NoPlayer
        /\ events' = r.events
        /\ out' = Returned(~r.ok)
        /\ UNCHANGED <<tvars, pvars, hvars, current_name, current, bones, slots>>

\* the starting frames requested: the first frames of a clip, and the frame
\* at the end of the longer clip, which lies past the end of the shorter one
StartFrames == (0..MaxStartFrame) \cup {animation_data[1].duration}

\* the calls a program with one skeleton makes
Next ==
    \/ \E n \in RunNames, f \in StartFrames, sp \in 1..MaxSpeed :
          Run(1, n, f, sp)
    \/ \E dt \in 1..MaxDt : Update(1, dt)
    \/ Restart(1)
    \/ \E f \in 0..MaxStartFrame : SetFrame(1, f)

Spec == Init /\ [][Next]_vars

\* the calls of a program that shows the same character twice: each skeleton
\* starts the first clip at frame 0, ticks, restarts and seeks to frame 1
SharedNext ==
    \/ \E s \in Skeletons : Run(s, animation_data[1].name, 0, 1)
    \/ \E s \in Skeletons : Update(s, 1)
    \/ \E s \in Skeletons : Restart(s)
    \/ \E s \in Skeletons : SetFrame(s, 1)

SharedSpec == Init /\ [][SharedNext]_vars

\* SkeletonAnimation.pause() on the current player of skeleton s
Pause(s) ==
    /\ current[s] # NoPlayer
    /\ current' = [current EXCEPT ![s].playing = FALSE]
    /\ out' = Returned(FALSE)
    /\ UNCHANGED <<tvars, pvars, hvars, current_name, events, bones, slots>>

\* SkeletonAnimation.unpause() on the current player of skeleton s
Unpause(s) ==
    /\ current[s] # NoPlayer
    /\ current' = [current EXCEPT ![s].playing = TRUE]
    /\ out' = Returned(FALSE)
    /\ UNCHANGED <<tvars, pvars, hvars, current_name, events, bones, slots>>

\* the calls of a program that starts clips, ticks, and pauses and resumes
\* the player
PauseNext ==
    \/ \E n \in ClipNames, f \in 0..MaxStartFrame : Run(1, n, f, 1)
    \/ \E dt \in 1..MaxDt : Update(1, dt)
    \/ Pause(1)
    \/ Unpause(1)

PauseSpec == Init /\ [][PauseNext]_vars

\* a set_smooth that returns silently when no player is current
SetSmoothSilent(s, smooth) ==
    /\ UNCHANGED <<tvars, pvars, hvars, current_name, bones, slots>>
    /\ IF current[s] = NoPlayer
       THEN /\ out' = Returned(FALSE)
            /\ UNCHANGED <<current, events>>
       ELSE /\ current' = [current EXCEPT ![s].smooth = smooth]
            /\ events' = ApplySmooth(events, smooth)
            /\ out' = Returned(FALSE)

\* SkeletonAnimationManager.set_smooth(smooth) of skeleton s: ValueError
\* when no player is current, else SkeletonAnimation.set_smooth(smooth)
\* stores the flag and gives it to every bone event
SetSmooth(s, smooth) ==
    /\ UNCHANGED <<tvars, pvars, hvars, current_name, bones, slots>>
    /\ IF current[s] = NoPlayer
       THEN /\ out' = Returned(TRUE)
            /\ UNCHANGED <<current, events>>
       ELSE /\ current' = [current EXCEPT ![s].smooth = smooth]
            /\ events' = ApplySmooth(events, smooth)
            /\ out' = Returned(FALSE)

\* the calls of a program that shows the same character twice and switches
\* the interpolation of either on and off
SmoothNext ==
    \/ \E s \in Skeletons : Run(s, animation_data[1].name, 0, 1)
    \/ \E s \in Skeletons : Update(s, 1)
    \/ \E s \in Skeletons : Restart(s)
    \/ \E s \in Skeletons, smooth \in BOOLEAN : SetSmooth(s, smooth)

SmoothSpec == Init /\ [][SmoothNext]_vars

(* ------------------------------ PoseSpec ------------------------------- *)
\* the clips that drive the bone of PoseSpec: the tracks each has for it
pose_clips ==
    [full |->
       [translateFrame |-> <<[duration |-> 2, x |-> 0], [duration |-> 2, x |-> 10]>>,
        rotateFrame |-> <<[duration |-> 2, rotate |-> 170],
                          [duration |-> 2, rotate |-> -90]>>,
        scaleFrame |-> <<[duration |-> 2, x |-> 2], [duration |-> 2, y |-> 3]>>],
     slide |->
       [translateFrame |-> <<[duration |-> 2, x |-> 10], [duration |-> 2, x |-> 10]>>]]

\* the relative angles a program assigns to the bone directly
RelativeAngles == {170}

\* the angles a program asks the skeleton to turn to
SkeletonTargetAngles == {270}

\* where a program puts the skeleton, how it turns and scales it
SkeletonPositions == {<<10, 10>>}
SkeletonAngles == {90}
SkeletonScales == {<<2, 1>>}

\* the set_smoothing calls a program makes
SmoothingCalls == {<<"False", None, "False">>, <<"True", "False", None>>}

\* the bone's events of one type, executed by a player tick: the event writes
\* its target when the clip has a track of that type for the bone
ExecuteEvent(bone, clip, event_type, event_index, current_duration, smooth) ==
    IF event_type \notin DOMAIN clip THEN bone
    ELSE SetTarget(bone,
                   BoneSample(event_type, clip[event_type], event_index,
                              current_duration,
                              DurationOf(clip[event_type], event_index), smooth))

\* what a player tick writes into the bone, its events standing at
\* event_index with current_duration elapsed
Sampled(bone, clip, event_index, current_duration, smooth) ==
    LET b1 == ExecuteEvent(bone, clip, "translateFrame", event_index,
                           current_duration, smooth)
        b2 == ExecuteEvent(b1, clip, "rotateFrame", event_index,
                           current_duration, smooth)
    IN  ExecuteEvent(b2, clip, "scaleFrame", event_index, current_duration, smooth)

\* SkeletonAnimation.update of a clip none of whose events has finished
PSample(clip_name, event_index, current_duration, smooth) ==
    LET clip == pose_clips[clip_name]
    IN  /\ \A ty \in DOMAIN clip :
              current_duration < DurationOf(clip[ty], event_index)
        /\ p_bone' = Sampled(p_bone, clip, event_index, current_duration, smooth)
        /\ UNCHANGED <<p_parent, p_ticks, tvars, mvars, hvars>>

\* Bone.relative_angle = angle
PSetRelativeAngle(angle) ==
    /\ p_bone' = [p_bone EXCEPT !.relative_angle = Int2Rat(angle)]
    /\ UNCHANGED <<p_parent, p_ticks, tvars, mvars, hvars>>

\* Bone.set_smoothing(angle, position, scale)
PSetSmoothing(angle, position, scale) ==
    /\ p_bone' = SetSmoothing(p_bone, angle, position, scale)
    /\ UNCHANGED <<p_parent, p_ticks, tvars, mvars, hvars>>

\* Bone.on_animation_start()
POnAnimationStart ==
    /\ p_bone' = BoneOnAnimationStart(p_bone)
    /\ UNCHANGED <<p_parent, p_ticks, tvars, mvars, hvars>>

\* Bone.update(dt)
PUpdate(dt) ==
    /\ p_ticks < MaxTicks
    /\ p_bone' = BoneTransformUpdate(p_bone, p_parent, dt)
    /\ p_ticks' = p_ticks + 1
    /\ UNCHANGED <<p_parent, tvars, mvars, hvars>>

\* Skeleton.set_target_angle(angle)
PSkeletonSetTargetAngle(angle) ==
    /\ p_parent' = [p_parent EXCEPT !.target_angle = Int2Rat(angle)]
    /\ UNCHANGED <<p_bone, p_ticks, tvars, mvars, hvars>>

\* Skeleton.set_position(x, y)
PSkeletonSetPosition(x, y) ==
    /\ p_parent' = [p_parent EXCEPT !.position = <<Int2Rat(x), Int2Rat(y)>>]
    /\ UNCHANGED <<p_bone, p_ticks, tvars, mvars, hvars>>

\* Skeleton.set_angle(angle)
PSkeletonSetAngle(angle) ==
    /\ p_parent' = [p_parent EXCEPT !.angle = angle]
    /\ UNCHANGED <<p_bone, p_ticks, tvars, mvars, hvars>>

\* Skeleton.set_scale(x, y)
PSkeletonSetScale(x, y) ==
    /\ p_parent' = [p_parent EXCEPT !.scale = <<Int2Rat(x), Int2Rat(y)>>]
    /\ UNCHANGED <<p_bone, p_ticks, tvars, mvars, hvars>>

\* Skeleton.update_angle_to_target(dt)
PSkeletonUpdateAngleToTarget(dt) ==
    /\ p_ticks < MaxTicks
    /\ p_parent' = SkeletonUpdateAngleToTarget(p_parent, dt)
    /\ p_ticks' = p_ticks + 1
    /\ UNCHANGED <<p_bone, tvars, mvars, hvars>>

PoseNext ==
    \/ \E c \in DOMAIN pose_clips, i \in 0..1, d \in 0..1, sm \in BOOLEAN :
          PSample(c, i, d, sm)
    \/ \E a \in RelativeAngles : PSetRelativeAngle(a)
    \/ \E c \in SmoothingCalls : PSetSmoothing(c[1], c[2], c[3])
    \/ POnAnimationStart
    \/ \E dt \in 1..MaxDt : PUpdate(dt)
    \/ \E a \in SkeletonTargetAngles : PSkeletonSetTargetAngle(a)
    \/ \E dt \in 1..MaxDt : PSkeletonUpdateAngleToTarget(dt)

PoseStart == PoseInit /\ MainInit /\ TrackIdle /\ TreeIdle

PoseSpec == PoseStart /\ [][PoseNext]_vars

(* ------------------------------ FrameSpec ------------------------------ *)
\* the relative positions a program assigns to the bone directly
RelativePositions == {<<5, 0>>}

\* what the player of the skeleton samples in a frame: nothing when no
\* animation is current, else a clip at a keyframe and an elapsed time
NoClip == "none"

AnimationManagerUpdate(bone, clip_name, event_index, current_duration, smooth) ==
    IF clip_name = NoClip THEN bone
    ELSE Sampled(bone, pose_clips[clip_name], event_index, current_duration, smooth)

\* Bone.relative_position = (x, y)
PSetRelativePosition(x, y) ==
    /\ p_bone' = [p_bone EXCEPT !.relative_position = <<Int2Rat(x), Int2Rat(y)>>]
    /\ UNCHANGED <<p_parent, p_ticks, tvars, mvars, hvars>>

\* Skeleton.update(dt) with render on: every bone's update, then the
\* animation manager's update
PSkeletonUpdate(dt, clip_name, event_index, current_duration, smooth) ==
    /\ p_ticks < MaxTicks
    /\ clip_name # NoClip =>
          \A ty \in DOMAIN pose_clips[clip_name] :
              current_duration < DurationOf(pose_clips[clip_name][ty], event_index)
    /\ p_bone' = AnimationManagerUpdate(BoneTransformUpdate(p_bone, p_parent, dt),
                                        clip_name, event_index, current_duration,
                                        smooth)
    /\ p_ticks' = p_ticks + 1
    /\ UNCHANGED <<p_parent, tvars, mvars, hvars>>

FrameNext ==
    \/ \E q \in RelativePositions : PSetRelativePosition(q[1], q[2])
    \/ \E c \in SmoothingCalls : PSetSmoothing(c[1], c[2], c[3])
    \/ \E q \in SkeletonPositions : PSkeletonSetPosition(q[1], q[2])
    \/ \E a \in SkeletonAngles : PSkeletonSetAngle(a)
    \/ \E sc \in SkeletonScales : PSkeletonSetScale(sc[1], sc[2])
    \/ \E a \in SkeletonTargetAngles : PSkeletonSetTargetAngle(a)
    \/ \E dt \in 1..MaxDt, c \in DOMAIN pose_clips \cup {NoClip}, i \in 0..1,
          d \in 0..1, sm \in BOOLEAN : PSkeletonUpdate(dt, c, i, d, sm)

FrameSpec == PoseStart /\ [][FrameNext]_vars

(* ------------------------------ TreeSpec ------------------------------- *)
\* Skeleton(...) with the bones loaded by SkeletonStructureManager
HLoadStructure ==
    /\ h_pc = "new"
    /\ LET loaded == StructureLoadBones(h_def)
       IN  IF loaded = Raise
           THEN /\ h_pc' = "raised"
                /\ UNCHANGED <<h_parent, h_order, h_fresh>>
           ELSE /\ h_pc' = "loaded"
                /\ h_parent' = loaded
                /\ h_order' = KeysOf(h_def)
                /\ h_fresh' = [b \in NamesOf(h_def) |-> TRUE]
    /\ UNCHANGED <<h_def, h_log, h_ticks, tvars, mvars, pvars>>

\* Skeleton(...) with the bones loaded by Skeleton._load_bones
HLoadSkeleton ==
    /\ h_pc = "new"
    /\ h_pc' = "loaded"
    /\ h_parent' = SkeletonLoadBones(h_def)
    /\ h_order' = KeysOf(h_def)
    /\ h_fresh' = [b \in NamesOf(h_def) |-> TRUE]
    /\ UNCHANGED <<h_def, h_log, h_ticks, tvars, mvars, pvars>>

\* for bone in self.bones.values(): bone.update(dt), from the k-th bone on;
\* a bone's update reads parent.position, parent.angle and parent.scale as
\* they stand: of this frame when the parent is the skeleton or a bone
\* updated earlier in the loop
RECURSIVE UpdateBonesFrom(_, _, _, _)
UpdateBonesFrom(order, k, parent, st) ==
    IF k > Len(order) THEN st
    ELSE LET b == order[k]
             read_fresh == \/ parent[b] = SkeletonRoot
                           \/ \E j \in 1..Len(st.log) : st.log[j] = parent[b]
         IN  UpdateBonesFrom(order, k + 1, parent,
                             [log |-> Append(st.log, b),
                              fresh |-> [st.fresh EXCEPT ![b] = read_fresh]])

\* Skeleton.update(dt)
HUpdate ==
    /\ h_pc = "loaded"
    /\ h_ticks < MaxTreeTicks
    /\ LET st == UpdateBonesFrom(h_order, 1, h_parent,
                                 [log |-> <<>>, fresh |-> h_fresh])
       IN  /\ h_log' = st.log
           /\ h_fresh' = st.fresh
    /\ h_ticks' = h_ticks + 1
    /\ UNCHANGED <<h_def, h_pc, h_parent, h_order, tvars, mvars, pvars>>

TreeNext == HLoadStructure \/ HLoadSkeleton \/ HUpdate

TreeStart == TreeInit /\ MainInit /\ TrackIdle /\ PoseIdle

TreeSpec == TreeStart /\ [][TreeNext]_vars

(* ================= claims about managers and players =================== *)
Targets(bone) ==
    <<bone.target_relative_position, bone.target_relative_angle,
      bone.target_relative_scale>>

Rates(bone) == <<bone.smoothing_speed, bone.smoothing_speed_timer>>

ClipOf(player) == animation_data[GetAnimationInfo(player.info)]

\* the (kind, part, event type) keys of the tracks a clip defines
TracksOf(info) ==
    { k \in {"bone"} \X BoneNames \X {"translateFrame", "rotateFrame", "scaleFrame"} :
        \E j \in 1..Len(info.bone) :
            info.bone[j].name = k[2] /\ k[3] \in DOMAIN info.bone[j] }
    \cup
    { k \in {"slot"} \X SlotNames \X {"displayFrame"} :
        \E j \in 1..Len(info.slot) :
            info.slot[j].name = k[2] /\ k[3] \in DOMAIN info.slot[j] }

\* C1: run with a clip name that is not in the animation data raises, and
\* leaves current_name, the current player and every bone's smoothing rates
\* and fast-settle timer as they were.
C1_UnknownClipChangesNothing ==
    [][ \A n \in RunNames \ (ClipNames \cup {None}),
           f \in StartFrames, sp \in 1..MaxSpeed :
          Run(1, n, f, sp)
          => /\ out'.raised
             /\ current_name' = current_name
             /\ current' = current
             /\ \A b \in BoneNames : Rates(bones'[1][b]) = Rates(bones[1][b]) ]_vars

C3_OnlyCurrentClipTracksAdvance ==
    [][ \A dt \in 1..MaxDt :
          ( /\ current[1] # NoPlayer
            /\ TracksOf(ClipOf(current[1])) \subseteq Keys(events)
            /\ Update(1, dt) )
          => out'.sampled \cup out'.replaced = TracksOf(ClipOf(current[1])) ]_vars

\* a call on the player of skeleton s
CallOn(s) ==
    \/ Run(s, animation_data[1].name, 0, 1)
    \/ Update(s, 1)
    \/ Restart(s)
    \/ SetFrame(s, 1)

\* C4: a call on one skeleton's player neither removes, replaces nor advances
\* a cursor that drives a part of the other skeleton.
C4_CursorsOwnedByOnePlayer ==
    [][ \A s \in Skeletons :
          CallOn(s)
          => \A k \in Keys(events) :
                EventAt(events, k).part[1] # s
                => /\ k \in Keys(events')
                   /\ EventAt(events', k) = EventAt(events, k) ]_vars

\* C10: on every tick of a player every track writes a sample, also the
\* tracks whose cursor the tick replaces.
C10_EveryTrackSampledEveryTick ==
    [][ \A dt \in 1..MaxDt :
          (current[1] # NoPlayer /\ Update(1, dt))
          => /\ out'.sampled = Keys(events)
             /\ Keys(events') = Keys(events) ]_vars

(* ====================== claims about one track cursor ================== *)
AllZero(event_sequence) ==
    \A i \in 1..Len(event_sequence) : Get(event_sequence[i], "duration", 0) = 0

RECURSIVE SumDurations(_, _)
SumDurations(event_sequence, n) ==
    IF n = 0 THEN 0
    ELSE SumDurations(event_sequence, n - 1) + DurationOf(event_sequence, n - 1)

TotalDuration(event_sequence) == SumDurations(event_sequence, Len(event_sequence))

\* the k-th index visited when walking forward cyclically from index i
WalkIndex(event_sequence, i, k) == (i + k) % Len(event_sequence)

RECURSIVE WalkSum(_, _, _)
WalkSum(event_sequence, i, k) ==
    IF k = 0 THEN 0
    ELSE WalkSum(event_sequence, i, k - 1)
         + DurationOf(event_sequence, WalkIndex(event_sequence, i, k))

IsStop(event_sequence, i, k, remainder) ==
    /\ DurationOf(event_sequence, WalkIndex(event_sequence, i, k)) > 0
    /\ WalkSum(event_sequence, i, k) > remainder

\* the first index with duration > 0 whose running sum exceeds the remainder
FirstStopIndex(event_sequence, i, remainder) ==
    LET K == 1..(Len(event_sequence) * (remainder + 2))
        k == CHOOSE k \in K : /\ IsStop(event_sequence, i, k, remainder)
                              /\ \A j \in 1..(k - 1) :
                                    ~IsStop(event_sequence, i, j, remainder)
    IN  WalkIndex(event_sequence, i, k)

\* the rational r equals n / d
RatEq(r, n, d) == r[1] * d = n * r[2]

\* C5: on a track whose keyframes all have zero duration the index never
\* changes and every update call that was started returns.
C5_ZeroTrackNeverHangs ==
    /\ [](AllZero(t_seq) => t_index = t_start.event_index)
    /\ [](AllZero(t_seq) /\ t_pc = "loop" => <>(t_pc = "idle"))

\* C6: from index 0, on a track with a positive-duration keyframe and with a
\* step that divides the total duration, the calls whose steps sum to one
\* full loop leave the cursor at index 0 with its initial elapsed time.
C6_OneLoopReturnsToStart ==
    ( /\ t_pc = "idle"
      /\ ~AllZero(t_seq)
      /\ t_start.event_index = 0
      /\ t_step > 0
      /\ TotalDuration(t_seq) % t_step = 0
      /\ t_calls * t_step = TotalDuration(t_seq) )
    => (t_index = 0 /\ t_cur = t_start.current_duration)

\* C7: a replacement cursor's elapsed time lies in [0, total) of its keyframe,
\* or is 0 on a zero-duration keyframe.
C7_ReplacementElapsedInRange ==
    [][ (t_pc = "loop" /\ t_pc' = "idle")
        => \/ (0 <= t_cur' /\ t_cur' < t_total')
           \/ (t_cur' = 0 /\ t_total' = 0) ]_vars

\* what a replacement cursor has to be, given the cursor it replaces
ReplacementAsSpecified ==
    (t_pc = "loop" /\ t_pc' = "idle")
    => /\ t_ret' = "replaced"
       /\ t_index' = FirstStopIndex(t_seq, t_index, t_cur - t_total)
       /\ t_total' = DurationOf(t_seq, t_index')
       /\ t_total' > 0
       /\ t_cur' = (t_cur - t_total) + t_step
       /\ t_sample' = t_sample

C9_SampleWhenNotExhausted ==
    [][ (t_pc = "idle" /\ t_cur + t_step < t_total)
        => LET a == Get(At(t_seq, t_index), "x", 0)
               b == Get(At(t_seq, GetNextEventIndex(t_seq, t_index, 1)), "x", 0)
               v == t_sample'.value
           IN  /\ t_ret' = "sampled" /\ t_pc' = "idle"
               /\ t_sample'.field = "position"
               /\ IF t_smooth
                  THEN RatEq(v[1], a * t_total + (b - a) * t_cur, t_total)
                  ELSE RatEq(v[1], a, 1)
               /\ RatEq(v[2], 0, 1)
               /\ t_cur' = t_cur + t_step
               /\ t_index' = t_index /\ t_total' = t_total
               /\ t_seq' = t_seq ]_vars

\* a smooth sample taken one third of the way through a keyframe of duration
\* 3, by a call that found elapsed = 1 and added a step of 1
C9_Witness ==
    /\ t_ret = "sampled" /\ t_pc = "idle" /\ t_smooth
    /\ t_total = 3 /\ t_step = 1 /\ t_cur = 2 /\ t_calls >= 1
    /\ t_sample.value[1][2] = 3

\* C11: a zero-duration keyframe is applied at the moment the traversal
\* reaches it: when the index search of a track with a positive-duration
\* keyframe moves onto a keyframe of duration 0, the target written is that
\* keyframe's payload.
C11_ZeroKeyframeAppliedWhenReached ==
    [][ ( /\ t_pc = "loop"
          /\ ~AllZero(t_seq)
          /\ t_loop'.event_index # t_loop.event_index
          /\ t_pc' = "loop"
          /\ DurationOf(t_seq, t_loop'.event_index) = 0 )
        => /\ t_sample'.field = "position"
           /\ RatEq(t_sample'.value[1],
                    Get(At(t_seq, t_loop'.event_index), "x", 0), 1) ]_vars

(* ============== claims about samples, rates and the timer ============== *)
SlotKey(sl) == <<"slot", sl, "displayFrame">>

\* C14: a display-index track is discrete: every sample sets the slot's
\* displayed index to the value of the cursor's current keyframe (0 when the
\* keyframe has none), whatever the elapsed time and the next keyframe are.
C14_DisplayIsCurrentKeyframeValue ==
    [][ \A dt \in 1..MaxDt :
          Update(1, dt)
          => \A sl \in SlotNames :
                SlotKey(sl) \in out'.sampled
                => LET e == EventAt(events, SlotKey(sl))
                   IN  slots'[1][sl] =
                         Get(At(e.event_sequence, e.event_index), "value", 0) ]_vars

\* a display sample taken half way through a keyframe whose value differs
\* from the next keyframe's
C14_Witness ==
    /\ SlotKey("s1") \in out.sampled
    /\ LET e == EventAt(events, SlotKey("s1"))
       IN  /\ e.event_index = 0 /\ e.total_duration = 2 /\ e.current_duration = 2
           /\ Get(At(e.event_sequence, 0), "value", 0)
                # Get(At(e.event_sequence, 1), "value", 0)
    /\ slots[1]["s1"] = 1

\* C17: once the fast-settle timer has been counted down to 0 (or past it),
\* every blend rate is the nominal rate 1.
C17_RatesNominalWhenTimerDone ==
    \A b \in BoneNames :
        bones[1][b].smoothing_speed_timer <= 0
        => \A g \in Groups : bones[1][b].smoothing_speed[g] = NominalRate

\* C18: immediately after a run call that changes the animation, every bone's
\* fast-settle timer is the between-animations time and every blend rate is
\* the between-animations rate.
C18_SwitchStartsFastSettle ==
    [][ \A n \in RunNames, f \in StartFrames, sp \in 1..MaxSpeed :
          (Run(1, n, f, sp) /\ current_name[1] # n)
          => \A b \in BoneNames :
                /\ bones'[1][b].smoothing_speed_timer = TimerBetween
                /\ bones'[1][b].smoothing_speed_timer # 0
                /\ \A g \in Groups :
                      bones'[1][b].smoothing_speed[g] = BetweenRate * TimerBetween ]_vars

\* a switch from walk, which wrote a position target, to idle, whose player
\* has not ticked yet
C18_Witness ==
    /\ current_name[1] = "idle" /\ current[1] # NoPlayer /\ current[1].frame = 0
    /\ ~out.raised
    /\ bones[1]["b1"].target_relative_position # NoTarget
    /\ \A b \in BoneNames : bones[1][b].smoothing_speed_timer = TimerBetween

\* C15: a run call with a start frame at or past the clip's duration fails
\* and leaves the manager's name and player and every track cursor as they
\* were.
C15_PastEndSeekChangesNothing ==
    [][ \A n \in ClipNames, f \in StartFrames, sp \in 1..MaxSpeed :
          ( /\ Run(1, n, f, sp)
            /\ current_name[1] # n
            /\ f >= animation_data[GetAnimationInfo(n)].duration )
          => /\ out'.raised
             /\ current_name' = current_name
             /\ current' = current
             /\ events' = events ]_vars

\* some keyframe of the track has no duration entry
HasAbsentDuration(event_sequence) ==
    \E k \in 1..Len(event_sequence) : "duration" \notin DOMAIN event_sequence[k]

\* C16: a keyframe without a duration, at any position of a track, makes the
\* start of the clip fail: no cursor is constructed on such a track and no
\* update call ever runs on it.
C16_AbsentDurationFailsAtStart ==
    HasAbsentDuration(t_seq)
    => (t_pc \in {"new", "raised"} /\ t_calls = 0)

(* ==================== claims about the pose of a bone =================== *)
\* the live pose of a bone: its relative and its world position, angle, scale
LivePose(bone) ==
    <<bone.relative_position, bone.relative_angle, bone.relative_scale,
      bone.position, bone.angle, bone.scale>>

IsPlayerTick ==
    \E c \in DOMAIN pose_clips, i \in 0..1, d \in 0..1, sm \in BOOLEAN :
        PSample(c, i, d, sm)

\* C12: a player tick writes the sampled values only into the bone's relative
\* targets: it changes neither the live relative position, angle and scale of
\* the bone nor its world position, angle and scale.
C12_TickWritesOnlyTargets ==
    [][LivePose(p_bone') # LivePose(p_bone) => ~IsPlayerTick]_vars

\* a tick has written targets that differ from the live pose the bone has
\* after an update
C12_Witness ==
    /\ p_ticks = 1
    /\ p_bone.target_relative_position # NoTarget
    /\ p_bone.target_relative_position # p_bone.relative_position
    /\ p_bone.target_relative_angle # NoTarget
    /\ p_bone.target_relative_angle # p_bone.relative_angle
    /\ p_bone.relative_position # <<Int2Rat(0), Int2Rat(0)>>

\* a + (b - a) * t at t = elapsed / total when smoothing is on, a when it is off
Interpolated(a, b, elapsed, total, smooth) ==
    IF smooth THEN RAdd(Int2Rat(a), RMul(Int2Rat(b - a), Rat(elapsed, total)))
    ELSE Int2Rat(a)

\* the keyframe pair (a, b) of a looping track at keyframe i (from 0)
PairA(track, i) == track[i + 1]
PairB(track, i) == IF i + 1 = Len(track) THEN track[1] ELSE track[i + 2]

\* the value of a keyframe's entry, the entry's default when it is absent
Entry(keyframe, key, default) ==
    IF key \in DOMAIN keyframe THEN keyframe[key] ELSE default

\* what the claim gives as the sample of each track of a clip
ClaimedSample(clip, ty, i, d, sm) ==
    LET a == PairA(clip[ty], i)
        b == PairB(clip[ty], i)
        total == a.duration
        V(key, default) == Interpolated(Entry(a, key, default),
                                        Entry(b, key, default), d, total, sm)
    IN  CASE ty = "translateFrame" -> <<V("x", 0), V("y", 0)>>
          [] ty = "rotateFrame" ->
               Interpolated(-Entry(a, "rotate", 0), -Entry(b, "rotate", 0),
                            d, total, sm)
          [] ty = "scaleFrame" -> <<V("x", 1), V("y", 1)>>

TargetOf(bone, ty) ==
    CASE ty = "translateFrame" -> bone.target_relative_position
      [] ty = "rotateFrame" -> bone.target_relative_angle
      [] ty = "scaleFrame" -> bone.target_relative_scale

\* C13: whatever tick the player takes next, the value it samples for the
\* keyframe pair (a, b) of a position, rotation or scale track at
\* t = elapsed / total is a + (b - a) * t with
\* smoothing on and a with smoothing off, rotation on the negated raw values;
\* on the track [{duration 2, x 0}, {duration 2, x 10}] at elapsed 1 in
\* keyframe 0 that is x = 5 with smoothing on and x = 0 with smoothing off.
C13_SampleIsLinearInterpolation ==
    \A c \in DOMAIN pose_clips, i \in 0..1, d \in 0..1, sm \in BOOLEAN :
        LET clip == pose_clips[c]
            ticked == Sampled(p_bone, clip, i, d, sm)
        IN  (\A ty \in DOMAIN clip : d < DurationOf(clip[ty], i)) =>
              /\ \A ty \in DOMAIN clip :
                    TargetOf(ticked, ty) = ClaimedSample(clip, ty, i, d, sm)
              /\ (c = "full" /\ i = 0 /\ d = 1) =>
                    ticked.target_relative_position[1]
                        = (IF sm THEN <<5, 1>> ELSE <<0, 1>>)

\* the tick at elapsed 1 in keyframe 0 with smoothing on has sampled the
\* position half way to x 10 and the rotation half way from -170 to 90
C13_Witness ==
    /\ p_bone.target_relative_position = <<<<5, 1>>, <<0, 1>>>>
    /\ p_bone.target_relative_angle = <<-40, 1>>
    /\ p_bone.target_relative_scale = <<<<3, 2>>, <<2, 1>>>>

IsBoneUpdate(dt) == p_ticks' = p_ticks + 1 /\ PUpdate(dt)

\* rate * dt * fps, the rate being the group's smoothing speed
StepFactor(bone, g, dt) == Rat(bone.smoothing_speed[g] * dt * fps, NominalRate)

\* value + (target - value) * factor
MovedBy(value, target, factor) == RAdd(value, RMul(RSub(target, value), factor))

\* the circular difference of target and value: target - value less the
\* whole turns that bring it into [-180, 180)
Shortest(target, value) ==
    LET d == RSub(target, value)
        turns == (d[1] + 180 * d[2]) \div (360 * d[2])
    IN  RSub(d, Int2Rat(360 * turns))

\* the relative blend of a pair of numbers (position, scale)
PairBlendAsStated(value, target, enabled, factor) ==
    IF target = NoTarget THEN value
    ELSE IF ~enabled THEN target
    ELSE <<MovedBy(value[1], target[1], factor), MovedBy(value[2], target[2], factor)>>

PositionAndScaleAsStated(dt) ==
    /\ p_bone'.relative_position =
          PairBlendAsStated(p_bone.relative_position, p_bone.target_relative_position,
                            p_bone.smoothing_enabled["position"],
                            StepFactor(p_bone, "position", dt))
    /\ p_bone'.relative_scale =
          PairBlendAsStated(p_bone.relative_scale, p_bone.target_relative_scale,
                            p_bone.smoothing_enabled["scale"],
                            StepFactor(p_bone, "scale", dt))

\* C19 as stated: in the relative blend step of a bone update each group is
\* handled on its own: without a target the relative value stays, with
\* smoothing disabled for the group it becomes the target, otherwise it moves
\* by (target - relative) * rate * dt * fps.
C19_EachGroupMovesByPlainDifference ==
    [][\A dt \in 1..MaxDt : IsBoneUpdate(dt) =>
          /\ PositionAndScaleAsStated(dt)
          /\ p_bone'.relative_angle =
                (IF p_bone.target_relative_angle = NoTarget THEN p_bone.relative_angle
                 ELSE IF ~p_bone.smoothing_enabled["angle"]
                 THEN p_bone.target_relative_angle
                 ELSE MovedBy(p_bone.relative_angle, p_bone.target_relative_angle,
                              StepFactor(p_bone, "angle", dt)))]_vars

\* C19 amended: as stated for position and scale; the angle moves by the
\* circular difference between target and relative angle times
\* rate * dt * fps. The value a group gets depends on that group's target,
\* flag and rate alone.
C19_AngleMovesByCircularDifference ==
    [][\A dt \in 1..MaxDt : IsBoneUpdate(dt) =>
          /\ PositionAndScaleAsStated(dt)
          /\ p_bone'.relative_angle =
                (IF p_bone.target_relative_angle = NoTarget THEN p_bone.relative_angle
                 ELSE IF ~p_bone.smoothing_enabled["angle"]
                 THEN p_bone.target_relative_angle
                 ELSE RAdd(p_bone.relative_angle,
                           RMul(Shortest(p_bone.target_relative_angle,
                                         p_bone.relative_angle),
                                StepFactor(p_bone, "angle", dt))))]_vars

\* an update has blended the position part of the way while the angle and
\* the scale, smoothing disabled for them, have snapped to their targets
C19_Witness ==
    /\ p_ticks = 1
    /\ p_bone.smoothing_enabled["position"]
    /\ ~p_bone.smoothing_enabled["angle"]
    /\ p_bone.smoothing_speed_timer = TimerBetween - 1
    /\ p_bone.target_relative_position = <<<<10, 1>>, <<0, 1>>>>
    /\ p_bone.relative_position = <<<<3, 1>>, <<0, 1>>>>
    /\ p_bone.target_relative_angle = <<-170, 1>>
    /\ p_bone.relative_angle = <<-170, 1>>
    /\ ~p_bone.smoothing_enabled["scale"]
    /\ p_bone.target_relative_scale = <<<<2, 1>>, <<1, 1>>>>
    /\ p_bone.relative_scale = <<<<2, 1>>, <<1, 1>>>>

InHalfTurn(d) == ~RLess(d, Int2Rat(-180)) /\ RLess(d, Int2Rat(180))

CongruentMod360(a, b) ==
    LET d == RSub(a, b) IN d[2] = 1 /\ d[1] % 360 = 0

\* value' - value is d * factor for the difference d of [-180, 180) that is
\* congruent to target - value modulo 360
TurnsShortestWay(value, target, moved, factor) ==
    LET d == Shortest(target, value)
    IN  /\ InHalfTurn(d)
        /\ CongruentMod360(d, RSub(target, value))
        /\ moved = RAdd(value, RMul(d, factor))

IsSkeletonTurn(dt) == p_ticks' = p_ticks + 1 /\ PSkeletonUpdateAngleToTarget(dt)

\* C20: an angle blend moves by the signed difference of [-180, 180) that is
\* congruent to target - current modulo 360, times the blend factor: for a
\* bone's relative angle, for its world angle and for the skeleton's angle;
\* from 170 toward -170 with a factor in (0, 1] the angle moves up through
\* 180, by at most 20, and never down through 0.
C20_AngleBlendTakesShortestPath ==
    [][\A dt \in 1..MaxDt :
          /\ IsBoneUpdate(dt) =>
                LET factor == StepFactor(p_bone, "angle", dt)
                IN  /\ (p_bone.target_relative_angle # NoTarget
                           /\ p_bone.smoothing_enabled["angle"]) =>
                          TurnsShortestWay(p_bone.relative_angle,
                                           p_bone.target_relative_angle,
                                           p_bone'.relative_angle, factor)
                    /\ p_bone.smoothing_enabled["angle"] =>
                          TurnsShortestWay(p_bone.angle, p_bone'.target_angle,
                                           p_bone'.angle, factor)
                    /\ (/\ p_bone.relative_angle = Int2Rat(170)
                        /\ p_bone.target_relative_angle = Int2Rat(-170)
                        /\ p_bone.smoothing_enabled["angle"]
                        /\ ~RLess(Int2Rat(1), factor)) =>
                          /\ RLess(Int2Rat(170), p_bone'.relative_angle)
                          /\ ~RLess(Int2Rat(190), p_bone'.relative_angle)
          /\ (IsSkeletonTurn(dt) /\ p_parent.target_angle # NoTarget) =>
                TurnsShortestWay(Int2Rat(p_parent.angle), p_parent.target_angle,
                                 Int2Rat(p_parent'.angle),
                                 Int2Rat(p_parent.angle_smoothing_speed * dt))]_vars

\* the relative angle 170 has been blended toward -170 at the rate that
\* follows a switch of animation: it stands at 176, beyond 170 toward 180
C20_Witness ==
    /\ p_ticks = 1
    /\ p_bone.smoothing_enabled["angle"]
    /\ p_bone.smoothing_speed_timer = TimerBetween - 1
    /\ p_bone.target_relative_angle = Int2Rat(-170)
    /\ p_bone.relative_angle = Int2Rat(176)

(* =================== claims about a frame of a skeleton ================= *)
IsFrame == p_ticks' = p_ticks + 1

\* the standard rotation of a point by a quarter-turn multiple, positive
\* angles turning clockwise
RotatedClockwise(v, angle) ==
    LET x == v[1]
        y == v[2]
        minus(a) == RSub(Int2Rat(0), a)
    IN  CASE angle % 360 = 0 -> <<x, y>>
          [] angle % 360 = 90 -> <<y, minus(x)>>
          [] angle % 360 = 180 -> <<minus(x), minus(y)>>
          [] angle % 360 = 270 -> <<minus(y), x>>

\* parent position + rotate((relative + base) scaled by the parent's scale,
\* parent angle)
DerivedPosition(relative, base, parent) ==
    LET scaled == <<RMul(RAdd(relative[1], base[1]), parent.scale[1]),
                    RMul(RAdd(relative[2], base[2]), parent.scale[2])>>
        turned == RotatedClockwise(scaled, parent.angle)
    IN  <<RAdd(parent.position[1], turned[1]), RAdd(parent.position[2], turned[2])>>

\* C21: after a bone update the bone's world position is the parent's world
\* position plus the rotation, by the parent's world angle, of relative
\* position + base position scaled component-wise by the parent's world
\* scale; with base (0,0) and relative (5,0) under a parent at (10,10),
\* angle 0, scale (1,1) it is (15,10).
C21_WorldPositionDerivedFromParent ==
    [][IsFrame =>
          /\ p_bone'.position = DerivedPosition(p_bone'.relative_position,
                                                p_bone.base_position, p_parent)
          /\ (/\ p_bone.base_position = <<Int2Rat(0), Int2Rat(0)>>
              /\ p_bone'.relative_position = <<Int2Rat(5), Int2Rat(0)>>
              /\ p_parent.position = <<Int2Rat(10), Int2Rat(10)>>
              /\ p_parent.angle = 0
              /\ p_parent.scale = <<Int2Rat(1), Int2Rat(1)>>) =>
                p_bone'.position = <<Int2Rat(15), Int2Rat(10)>>]_vars

\* the bone with base position (1,2) and relative position (5,0) has been
\* updated under a skeleton at (10,10) turned by 90 and scaled by (2,1)
C21_Witness ==
    /\ p_ticks = 1
    /\ p_bone.base_position = <<Int2Rat(1), Int2Rat(2)>>
    /\ p_bone.relative_position = <<Int2Rat(5), Int2Rat(0)>>
    /\ p_parent.position = <<Int2Rat(10), Int2Rat(10)>>
    /\ p_parent.angle = 90
    /\ p_parent.scale = <<Int2Rat(2), Int2Rat(1)>>
    /\ p_bone.position = <<Int2Rat(12), Int2Rat(-2)>>

(* ================ claims about the world pose of a bone ================= *)
Times2(a, b) == <<RMul(a[1], b[1]), RMul(a[2], b[2])>>

\* the world blend of an angle and of a scale toward derived values, by the
\* rules of the relative step: snap when smoothing is disabled for the group,
\* else move by the (circular, for the angle) difference times rate * dt * fps
WorldBlendToward(derived_angle, derived_scale, dt) ==
    /\ p_bone'.angle =
          (IF ~p_bone.smoothing_enabled["angle"] THEN derived_angle
           ELSE RAdd(p_bone.angle,
                     RMul(Shortest(derived_angle, p_bone.angle),
                          StepFactor(p_bone, "angle", dt))))
    /\ p_bone'.scale =
          (IF ~p_bone.smoothing_enabled["scale"] THEN derived_scale
           ELSE <<MovedBy(p_bone.scale[1], derived_scale[1],
                          StepFactor(p_bone, "scale", dt)),
                  MovedBy(p_bone.scale[2], derived_scale[2],
                          StepFactor(p_bone, "scale", dt))>>)

\* the relative angle term: the relative angle times the bone's world scale
\* x * y as it stands before the world blend
RelativeAngleTerm(after, before) ==
    RMul(RMul(after.relative_angle, before.scale[1]), before.scale[2])

\* C22 as stated: after the relative blend and the derivation, world angle
\* and world scale are blended by the rules of the relative step toward
\* parent scale * relative scale * base scale and
\* parent angle + relative angle term + base angle.
C22_WorldBlendTowardPlainDerivation ==
    [][\A dt \in 1..MaxDt : IsBoneUpdate(dt) =>
          WorldBlendToward(
              RAdd(RAdd(Int2Rat(p_parent.angle), RelativeAngleTerm(p_bone', p_bone)),
                   p_bone.base_angle),
              Times2(p_parent.scale,
                     Times2(p_bone'.relative_scale, p_bone.base_scale)),
              dt)]_vars

\* C22 amended: as stated, the bone's parent being the skeleton: the derived
\* angle has the parent angle plus 180 and the derived scale has the parent's
\* x scale negated.
C22_WorldBlendTowardMirroredDerivation ==
    [][\A dt \in 1..MaxDt : IsBoneUpdate(dt) =>
          WorldBlendToward(
              RAdd(RAdd(Int2Rat(p_parent.angle + 180),
                        RelativeAngleTerm(p_bone', p_bone)),
                   p_bone.base_angle),
              Times2(<<RSub(Int2Rat(0), p_parent.scale[1]), p_parent.scale[2]>>,
                     Times2(p_bone'.relative_scale, p_bone.base_scale)),
              dt)]_vars

\* an update at the rate that follows a switch of animation has moved the
\* world scale from (1,1) part of the way to the derived (-2,1) and the world
\* angle from 0 part of the way round to the derived 140
C22_Witness ==
    /\ p_ticks = 1
    /\ p_bone.smoothing_speed_timer = TimerBetween - 1
    /\ p_bone.smoothing_enabled["angle"]
    /\ p_bone.smoothing_enabled["scale"]
    /\ p_bone.relative_scale = <<Int2Rat(1), Int2Rat(1)>>
    /\ p_bone.base_scale = <<Int2Rat(2), Int2Rat(1)>>
    /\ p_bone.target_scale = <<Int2Rat(-2), Int2Rat(1)>>
    /\ p_bone.scale = <<Rat(1, 10), Int2Rat(1)>>
    /\ p_bone.target_angle = Int2Rat(450)
    /\ p_bone.angle = Int2Rat(27)

\* C23: in every Skeleton.update(dt) the animation player is advanced first,
\* then the skeleton's angle is eased toward its target, then the bone is
\* updated, so that the bone's update uses the targets sampled in that frame.
C23_PlayerThenEasingThenBones ==
    [][IsFrame =>
          \A dt \in 1..MaxDt, c \in DOMAIN pose_clips \cup {NoClip}, i \in 0..1,
             d \in 0..1, sm \in BOOLEAN :
              PSkeletonUpdate(dt, c, i, d, sm) =>
                  LET sampled == AnimationManagerUpdate(p_bone, c, i, d, sm)
                      eased == SkeletonUpdateAngleToTarget(p_parent, dt)
                  IN  /\ p_parent' = eased
                      /\ p_bone' = BoneTransformUpdate(sampled, eased, dt)]_vars

(* ==================== claims about the tree of bones ==================== *)
\* the chain of parents of a bone reaches the skeleton within n steps
RECURSIVE ChainReachesRoot(_, _, _)
ChainReachesRoot(parent, b, n) ==
    IF parent[b] = SkeletonRoot THEN TRUE
    ELSE IF n = 0 THEN FALSE
    ELSE ChainReachesRoot(parent, parent[b], n - 1)

IsTree(parent) == \A b \in DOMAIN parent : ChainReachesRoot(parent, b, MaxBones)

UpdatedOnce(b) == Cardinality({ j \in 1..Len(h_log) : h_log[j] = b }) = 1

\* C24: in every frame of a loaded tree of bones, whatever the order of the
\* definition, every bone is updated exactly once and only after its parent
\* has been updated in that frame.
C24_ParentUpdatedBeforeChild ==
    (h_pc = "loaded" /\ h_ticks >= 1 /\ IsTree(h_parent)) =>
        \A b \in DOMAIN h_parent : UpdatedOnce(b) /\ h_fresh[b]

\* the "parent" references of a definition, by bone name
RefsOf(def) == [b \in NamesOf(def) |-> Get(DefOf(def, b), "parent", SkeletonRoot)]

\* following the references from a name leads to the bone `to` within n steps
RECURSIVE RefsLeadTo(_, _, _, _)
RefsLeadTo(refs, from, to, n) ==
    IF from \notin DOMAIN refs THEN FALSE
    ELSE IF refs[from] = to THEN TRUE
    ELSE IF n = 0 THEN FALSE
    ELSE RefsLeadTo(refs, refs[from], to, n - 1)

HasCycle(def) == \E b \in NamesOf(def) : RefsLeadTo(RefsOf(def), b, b, MaxBones)

\* C25: a definition whose parent references contain a cycle is not loaded,
\* and in every loaded skeleton the chain of parents of every bone reaches
\* the skeleton.
C25_NoCycleIsLoaded ==
    h_pc = "loaded" => (~HasCycle(h_def) /\ IsTree(h_parent))

NamesMissingParent(def) ==
    \E i \in 1..Len(def) :
        "parent" \in DOMAIN def[i] /\ def[i].parent \notin NamesOf(def)

\* C26: in a loaded skeleton every bone has its one parent, another bone of
\* the skeleton or the skeleton itself, set before any update, and a
\* definition that names a parent that does not exist is not loaded.
C26_ParentsResolvedAtLoad ==
    h_pc = "loaded" =>
        /\ ~NamesMissingParent(h_def)
        /\ \A b \in NamesOf(h_def) :
              /\ b \in DOMAIN h_parent
              /\ h_parent[b] \in NamesOf(h_def) \cup {SkeletonRoot}

(* ======================= claims about set_smoothing ===================== *)
\* the flag a group has after set_smoothing was given arg for it
FlagAfter(flag, arg) == IF arg = None THEN flag ELSE arg = "True"

EndsInDefaultPose ==
    /\ \A b \in BoneNames : IsIdentity(bones'[1][b])
    /\ slots'[1] = default_display
    /\ current'[1] = NoPlayer

\* C28: run with animation_name None, called in any state, the initial one
\* included, ends with every bone's relative targets at identity, every slot
\* at its default display and no player current.
C28_RunNoneResetsToDefaultPose ==
    \A f \in StartFrames, sp \in 1..MaxSpeed :
        ~ENABLED (Run(1, None, f, sp) /\ ~EndsInDefaultPose)

(* =================== claims about the smoothing toggle ================= *)
\* the skeleton whose player created the cursor behind key k
OwnerOf(k) == EventAt(events, k).part[1]

\* the bone tracks a tick of skeleton s samples use the flag of the player
\* that created them
SamplesUseOwnersFlag ==
    \A k \in out'.sampled :
        k[1] = "bone"
        => /\ current[OwnerOf(k)] # NoPlayer
           /\ EventAt(events', k).smooth = current[OwnerOf(k)].smooth

\* C29: after set_smooth(v) on a player (its flag holds v; True when no call
\* was made), every bone track that player created is sampled with
\* smoothing v on every later tick, replaced cursors included.
C29_SamplesUseThePlayersToggle ==
    [][ \A s \in Skeletons :
          (current[s] # NoPlayer /\ Update(s, 1)) => SamplesUseOwnersFlag ]_vars

(* ======================= claims about restart ========================== *)
\* the keyframe sequence of the track with key k in a clip
SeqOf(info, k) ==
    LET infos == IF k[1] = "bone" THEN info.bone ELSE info.slot
        j == CHOOSE j \in 1..Len(infos) : infos[j].name = k[2]
    IN  infos[j][k[3]]

Cursor(ev, k) == <<EventAt(ev, k).event_index, EventAt(ev, k).current_duration>>

\* where the cursor of track k stands when the player's clip is entered at
\* the player's start frame
StartCursor(player, k) ==
    LET r == FrameToIndexDuration(player.duration, player.start_frame,
                                  SeqOf(ClipOf(player), k))
    IN  <<r.event_index, r.start_duration>>

AtStartCursors(player, ev) ==
    \A k \in TracksOf(ClipOf(player)) :
        k \in Keys(ev) /\ Cursor(ev, k) = StartCursor(player, k)

PlayerIdentity(player) == <<player.info, player.duration, player.start_frame>>

\* a run that constructs a player: the name changes to a clip and no
\* exception leaves the call
StartsClip ==
    /\ current_name'[1] # current_name[1]
    /\ current_name'[1] # None
    /\ ~out'.raised

\* a call leaves a newly constructed player's tracks at the start cursors,
\* and a player that stays current keeps its clip and start frame
KeepsStart ==
    /\ StartsClip => AtStartCursors(current'[1], events')
    /\ (current[1] # NoPlayer /\ current'[1] # NoPlayer /\ ~StartsClip)
       => PlayerIdentity(current'[1]) = PlayerIdentity(current[1])

\* C30: restart puts every track of the player's clip at the (index, elapsed)
\* it had right after the player was constructed at its start frame, whatever
\* ticks and seeks came in between: construction leaves the tracks at the
\* start cursors, a player keeps its clip and start frame as long as it is
\* current, and restart ends at the start cursors again.
C30_RestartReturnsToConstructedCursors ==
    [][ /\ KeepsStart
        /\ (current' = current /\ out' = Returned(FALSE) /\ Restart(1))
           => AtStartCursors(current[1], events') ]_vars

\* a player started at frame 1 was ticked and then restarted: its tracks stand
\* at the start cursors, which are not those of frame 0
C30_Witness ==
    /\ current[1] # NoPlayer
    /\ current[1].start_frame = 1
    /\ current[1].frame > 0
    /\ out = Returned(FALSE)
    /\ AtStartCursors(current[1], events)
    /\ <<"bone", "b1", "translateFrame">> \in Keys(events)
    /\ Cursor(events, <<"bone", "b1", "translateFrame">>) = <<1, 1>>

(* ================== claims about set_smooth's errors =================== *)
\* what the call set_smooth(smooth) on skeleton s must have done
SetSmoothAsStated(s, smooth) ==
    IF current[s] = NoPlayer
    THEN /\ out'.raised
         /\ current_name' = current_name /\ current' = current
         /\ events' = events /\ bones' = bones /\ slots' = slots
    ELSE /\ ~out'.raised
         /\ current'[s] # NoPlayer
         /\ current'[s].smooth = smooth

\* C31: set_smooth raises when the manager has no current player and then
\* changes nothing; with a current player it stores the flag in that player
\* and does not raise.
C31_SetSmoothRaisesOnlyWithoutPlayer ==
    \A s \in Skeletons, smooth \in BOOLEAN :
        ~ENABLED (SetSmooth(s, smooth) /\ ~SetSmoothAsStated(s, smooth))

\* skeleton 2's player was switched to smooth False, and the call on
\* skeleton 1, which has no player, raised
C31_Witness ==
    /\ current[1] = NoPlayer
    /\ out.raised
    /\ current[2] # NoPlayer
    /\ ~current[2].smooth

(* ==================== claims about looping and seeking ================= *)
\* the cursor's absolute position: the durations before its index, plus elapsed
AbsolutePosition(event_sequence, event_index, current_duration) ==
    SumDurations(event_sequence, event_index) + current_duration

\* C32: after n returned advance calls with step s the cursor's absolute
\* position is congruent to p0 + n * s modulo the track's total duration, on
\* every track with a keyframe of positive duration.
C32_LoopingIsDriftFree ==
    (t_pc = "idle" /\ TotalDuration(t_seq) > 0)
    => AbsolutePosition(t_seq, t_index, t_cur) % TotalDuration(t_seq)
       = (AbsolutePosition(t_seq, t_start.event_index, t_start.current_duration)
          + t_calls * t_step) % TotalDuration(t_seq)

\* C33: with a fixed step > 0 on a track with a keyframe of positive
\* duration, repeated advance emits a sample again and again.
C33_LargeStepKeepsSampling ==
    (t_step > 0 /\ TotalDuration(t_seq) > 0) => []<>(t_ret = "sampled")

HasDurations(event_sequence) ==
    \A i \in 1..Len(event_sequence) : "duration" \in DOMAIN event_sequence[i]

\* the keyframe at sequence index k covers the frame
Contains(event_sequence, k, frame) ==
    /\ SumDurations(event_sequence, k) <= frame
    /\ frame < SumDurations(event_sequence, k) + DurationOf(event_sequence, k)

SeekIsExact(frame) ==
    /\ t_pc' = "idle"
    /\ Contains(t_seq, t_index', frame)
    /\ t_cur' = frame - SumDurations(t_seq, t_index')
    /\ IndexDurationToFrame(t_seq, t_index', t_cur') = frame

\* C34: a seek to a frame in 0 <= frame < clip duration, on a track whose
\* durations sum to the clip duration, succeeds with the index of the keyframe
\* that covers the frame and elapsed = frame - that keyframe's start, so that
\* _index_duration_to_frame gives the frame back.
C34_SeekIsTotalAndExact ==
    [][ \A frame \in 0..MaxSeekFrame :
          ( /\ HasDurations(t_seq)
            /\ frame < ClipDuration(t_seq)
            /\ TSeek(frame) )
          => SeekIsExact(frame) ]_vars

(* ===================== claims about emitted samples ==================== *)
\* the rational v = <<n, d>> lies between the integers a and b
Between(v, a, b) ==
    \/ a * v[2] <= v[1] /\ v[1] <= b * v[2]
    \/ b * v[2] <= v[1] /\ v[1] <= a * v[2]

\* each component written lies between the payloads of the cursor's keyframe
\* and of the next one
SampleBetweenKeyframes ==
    LET info == GetInfoPair(t_seq, t_index)
    IN  /\ Between(t_sample'.value[1], Get(info[1], "x", 0), Get(info[2], "x", 0))
        /\ Between(t_sample'.value[2], Get(info[1], "y", 0), Get(info[2], "y", 0))

\* C35: whenever a track emits a sample its cursor has 0 <= elapsed < total
\* (so total > 0 and the progress fraction is in [0, 1)), and every component
\* written lies between the current keyframe's value and the next one's.
C35_SampleOnlyInsideKeyframe ==
    [][ TUpdateSample
        => /\ 0 <= t_cur
           /\ t_cur < t_total
           /\ t_total > 0
           /\ SampleBetweenKeyframes ]_vars

\* after a replacement, a sample strictly inside a keyframe: a proper fraction
C35_Witness ==
    /\ t_ret = "sampled"
    /\ t_calls >= 3
    /\ t_index > 0
    /\ t_sample.field = "position"
    /\ t_sample.value[1][2] > 1

(* ================= claims about the manager's state ==================== *)
\* C36: in every state the manager's player is None exactly when current_name
\* is None, and a player that is current was built from the clip current_name
\* names.
C36_PlayerMatchesCurrentName ==
    /\ current[1] = NoPlayer <=> current_name[1] = None
    /\ current[1] # NoPlayer => current[1].info = current_name[1]

\* nothing the manager, the player, the cursors or the bones hold changes
NothingChanges ==
    /\ current_name' = current_name
    /\ current' = current
    /\ events' = events
    /\ bones' = bones
    /\ slots' = slots

\* C37: run with the name that is already current changes nothing: player,
\* track cursors, bone targets, smoothing rates and fast-settle timers stay as
\* they are, whatever starting_frame and speed are passed.
C37_RunSameNameIsNoOp ==
    \A f \in StartFrames, sp \in 1..MaxSpeed :
        current_name[1] # None
        => ~ENABLED (Run(1, current_name[1], f, sp) /\ ~NothingChanges)

\* walk is playing and was ticked once; the last call returned without
\* sampling and left the advanced cursor where it was
C37_Witness ==
    /\ current_name[1] = "walk"
    /\ current[1] # NoPlayer
    /\ current[1].frame = 1
    /\ out = Returned(FALSE)
    /\ <<"bone", "b1", "translateFrame">> \in Keys(events)
    /\ Cursor(events, <<"bone", "b1", "translateFrame">>) = <<0, 1>>

(* ========================= claims about pause ========================== *)
\* a tick leaves every cursor, every bone target, every slot display and the
\* player with its frame counter as they were
TickChangesNothing ==
    /\ events' = events
    /\ current' = current
    /\ slots' = slots
    /\ \A b \in BoneNames : Targets(bones'[1][b]) = Targets(bones[1][b])

\* pause and unpause touch nothing but the player's playing flag
OnlyPlayingSet(playing) ==
    /\ events' = events
    /\ current' = [current EXCEPT ![1].playing = playing]

\* C38: while the player is paused an update of any dt advances or replaces no
\* cursor, writes no bone target and no slot display and leaves the frame
\* counter alone; pause and unpause leave the cursors as they are, so the
\* first update after unpause starts from the cursors held at the pause.
C38_PausedUpdateChangesNothing ==
    current[1] # NoPlayer
    => /\ ~current[1].playing
          => \A dt \in 1..MaxDt : ~ENABLED (Update(1, dt) /\ ~TickChangesNothing)
       /\ ~ENABLED (Pause(1) /\ ~OnlyPlayingSet(FALSE))
       /\ ~ENABLED (Unpause(1) /\ ~OnlyPlayingSet(TRUE))

\* walk was ticked once, paused and ticked while paused, resumed and ticked
\* again: three updates have aged the bones, two have advanced the cursor
C38_Witness ==
    /\ current[1] # NoPlayer
    /\ current[1].playing
    /\ current[1].info = "walk"
    /\ current[1].start_frame = 0
    /\ current[1].frame = 2
    /\ <<"bone", "b1", "translateFrame">> \in Keys(events)
    /\ Cursor(events, <<"bone", "b1", "translateFrame">>) = <<0, 2>>
    /\ bones[1]["b1"].smoothing_speed_timer = TimerBetween - 3

====
